---- MODULE Spec2Model ----
(***************************************************************************)
(* A model of the Elnur Gabarron Home Assistant integration:               *)
(*   - the zone store of ElnurSocketIOCoordinator (self.data) and the two  *)
(*     Socket.IO event handlers that write it,                             *)
(*   - the listener task (_socketio_listener) with its connect / poll /    *)
(*     backoff loop, the bootstrap fetch and the REST refresh,             *)
(*   - the Engine.IO frame codec (parse_engineio_payload and the           *)
(*     "<len>:<payload>" packets the coordinator posts),                   *)
(*   - the token calls of ElnurGabarronAPI (authenticate,                  *)
(*     refresh_access_token, async_get_access_token),                      *)
(*   - async_setup_entry, from the authentication to the start of the      *)
(*     listener.                                                           *)
(*                                                                         *)
(* Python dicts are functions whose domain is the set of keys present;     *)
(* Python None in a string-valued field is the string None below.          *)
(***************************************************************************)
EXTENDS Integers, Sequences, FiniteSets, TLC

VARIABLES
    \* ---- ElnurSocketIOCoordinator fields
    data,               \* self.data: zone key -> zone dict (None is the empty map)
    device_id,          \* self._device_id
    device_name,        \* self._device_name
    group_id,           \* self._group_id
    group_name,         \* self._group_name
    \* ---- _handle_dev_data_event in progress (its locals)
    h_pc,               \* "idle" | "merging": position inside the dev_data handler
    new_data,           \* local new_data of the handler
    nodes,              \* the node list of the event being handled
    node_idx,           \* index of the next node of the for loop
    \* ---- observers
    notify_count,       \* listener notifications (async_set_updated_data) of the last event
    last_event,         \* the event handled last: its name and, for an update, its path
    committed,          \* the mapping after the last completely handled event
    reader_view,        \* what the last snapshot read by a consumer returned
    \* ---- frame codec
    c_pc,               \* "off" | "new" | "framed" | "decoded"
    frame_payload,      \* the text of one message, as bytes
    framing,            \* how the payload was put on the wire
    garbage,            \* bytes appended after the frame
    wire,               \* the bytes handed to parse_engineio_payload
    messages,           \* the list parse_engineio_payload returned
    \* ---- more ElnurSocketIOCoordinator fields
    sid,                \* self._sid
    connected,          \* self._connected
    reconnect_count,    \* self._reconnect_count
    consecutive_connection_failures,    \* self._consecutive_connection_failures
    last_update_time,   \* self._last_update_time
    \* ---- the listener task (_socketio_listener) and its locals
    l_pc,               \* "none" | "connect" | "fallback" | "backoff" | "errsleep" | "polling"
                        \*   | "cooldown" | "cancelled" | "crashed": self._listener_task and
                        \*   its position
    reconnect_delay,    \* local reconnect_delay
    last_activity,      \* local last_activity
    poll_count,         \* local poll_count
    \* ---- environment and observers of the listener
    booted,             \* the first refresh (bootstrap fetch) has returned data
    now,                \* asyncio.get_event_loop().time(), in seconds
    fallbacks,          \* REST fallback fetches since the last successful connect
    failed_connects,    \* failed connect attempts since the last successful connect
    waits,              \* backoff sleeps since the last successful connect
    last_failure,       \* the failure met by the last listener step, "none" without one
    exit_reason,        \* why the last poll iteration left the poll loop, "none" if it did not
    alive,              \* the number of listener tasks created and not done
    first_refresh,      \* async_config_entry_first_refresh: "none", "ok" or "raised"
    \* ---- observer of async_request_refresh
    last_refresh,       \* what the last refresh call did: its path, the sessions it posted a
                        \*   snapshot request on, the zones it asked REST for, whether it published
    \* ---- the REST path of async_request_refresh in progress (its locals)
    refresh_pc,         \* "idle" | "fetching": position inside the REST loop
    refresh_new_data,   \* local new_data of the refresh
    refresh_todo,       \* the zone keys the for loop has still to visit
    \* ---- ElnurGabarronAPI
    access_token,       \* self._access_token
    refresh_token,      \* self._refresh_token
    token_expires_at,   \* self._token_expires_at, NoExpiry for None
    api_call,           \* the last method called on the client
    api_result,         \* and how it ended: "true", "false", "token" or "raised"
    \* ---- async_setup_entry
    setup_pc,           \* position of async_setup_entry
    coordinator_created,\* an ElnurSocketIOCoordinator was constructed for the entry
    entry_coordinator,  \* hass.data[DOMAIN][entry.entry_id] holds the coordinator
    platforms_loaded,   \* async_forward_entry_setups has completed
    \* ---- what the last cycle of the poll loop sent and received
    last_poll,          \* keepalive: the dev_data keepalive was posted; pings: ping frames
                        \*   in the response; pongs: pongs posted
    last_frame,         \* when the last response that held a frame arrived
    \* ---- ElnurGabarronConfigFlow
    flow_result,        \* what the last async_step_user returned: "none", "form",
                        \*   "create_entry" or "abort"
    flow_error,         \* errors["base"] of the form or the reason of the abort, "none"
                        \*   without one
    flow_auth,          \* how authenticate() ended in the last submission, "none" if not called
    entries,            \* the unique ids of the config entries that exist
    \* ---- ElnurGabarronClimate (one entity, zone 3)
    optimistic_target_temp,     \* self._optimistic_target_temp, NoTemp for None
    optimistic_hvac_mode,       \* self._optimistic_hvac_mode
    optimistic_hvac_action,     \* self._optimistic_hvac_action
    commands,           \* the commands that await their API call
    api_commands,       \* the calls of api.set_temperature / set_mode made so far, each with
                        \*   what the entity reported when the call was made
    entity_tasks        \* the clear_and_refresh / additional_refresh tasks created and not
                        \*   yet run, in the order of their creation

storeVars == <<data, device_id, device_name, group_id, group_name,
               h_pc, new_data, nodes, node_idx, notify_count, last_event, committed, reader_view>>

codecVars == <<c_pc, frame_payload, framing, garbage, wire, messages>>

listenerVars == <<sid, connected, reconnect_count, consecutive_connection_failures,
                  last_update_time, l_pc, reconnect_delay, last_activity, poll_count,
                  booted, now, fallbacks, failed_connects, waits, last_failure, exit_reason,
                  alive, first_refresh>>

refreshStepVars == <<refresh_pc, refresh_new_data, refresh_todo>>

refreshVars == <<last_refresh, refreshStepVars>>

apiVars == <<access_token, refresh_token, token_expires_at, api_call, api_result>>

setupVars == <<setup_pc, coordinator_created, entry_coordinator, platforms_loaded>>

flowVars == <<flow_result, flow_error, flow_auth, entries>>

entityVars == <<optimistic_target_temp, optimistic_hvac_mode, optimistic_hvac_action, commands,
                api_commands, entity_tasks>>

\* what sits in front of the coordinator: the config flow and the entities
frontVars == <<flowVars, entityVars>>

\* what the coordinator lives in: the API client, the config entry and the
\* front
pollObs == <<last_poll, last_frame>>

hostVars == <<apiVars, setupVars, frontVars, pollObs>>

vars == <<storeVars, codecVars, listenerVars, refreshVars, hostVars>>

-----------------------------------------------------------------------------
(* Python values *)

None == "None"

EmptyMap == [k \in {} |-> k]

\* dict.get(key, default)
Get(m, k, default) == IF k \in DOMAIN m THEN m[k] ELSE default

\* m[k] = v on a copy of m
Put(m, k, v) == [y \in DOMAIN m \cup {k} |-> IF y = k THEN v ELSE m[y]]

\* dict.update: the entries of upd replace or extend those of m
Update(m, upd) == [y \in DOMAIN m \cup DOMAIN upd |-> IF y \in DOMAIN upd THEN upd[y] ELSE m[y]]

\* f"{device_id}_zone{zone_id}"
UniqueKey(dev, zone_id) == dev \o "_zone" \o ToString(zone_id)

\* f"Zone {addr}"
DefaultName(addr) == "Zone " \o ToString(addr)

\* self._optimistic_target_temp = None
NoTemp == -1

\* no cycle of the poll loop run yet
NoPoll == [keepalive |-> FALSE, pings |-> 0, pongs |-> 0]

\* no refresh call made yet
NoRefresh == [path |-> "none", posts |-> <<>>, rest_calls |-> {}, published |-> FALSE]

-----------------------------------------------------------------------------
(* _handle_update_event *)

\* "/acm/" in path, on the parts of path.split("/")
HasAcm(parts) == \E i \in 2..(Len(parts) - 1) : parts[i] = "acm"

\* int(s) succeeds
IsInt(s) == \E n \in 0..9 : ToString(n) = s

\* int(s)
ParseInt(s) == CHOOSE n \in 0..9 : ToString(n) = s

\* A variant that merges the body into the stored sub-map instead of replacing it
UpdatedZoneMerged(zone, update_type, body) ==
    IF update_type = "status" THEN Put(zone, "status", Update(Get(zone, "status", EmptyMap), body))
    ELSE IF update_type = "setup" THEN Put(zone, "setup", Update(Get(zone, "setup", EmptyMap), body))
    ELSE zone

\* the zone dict after the update: zone["status"] = body or zone["setup"] = body
UpdatedZone(zone, update_type, body) ==
    IF update_type = "status" THEN Put(zone, "status", body)
    ELSE IF update_type = "setup" THEN Put(zone, "setup", body)
    ELSE zone

\* A variant without the `unique_key in self.data` test: the zone is created
HandleUpdateEventUpsert(d, dev, payload) ==
    LET parts == payload.path
        unchanged == [data |-> d, published |-> FALSE]
    IN  IF ~HasAcm(parts) \/ Len(parts) < 3 THEN unchanged
        ELSE IF ~IsInt(parts[3]) \/ dev = None THEN unchanged
        ELSE LET unique_key == UniqueKey(dev, ParseInt(parts[3]))
                 update_type == IF Len(parts) > 3 THEN parts[4] ELSE "status"
             IN  [data |-> Put(d, unique_key,
                               UpdatedZone(Get(d, unique_key, EmptyMap), update_type, payload.body)),
                  published |-> TRUE]

\* The whole handler on store d: the new store and whether listeners were notified.
\* payload.path is the list path.split("/"), payload.body the body dict.
HandleUpdateEvent(d, dev, payload) ==
    LET parts == payload.path
        body  == payload.body
        unchanged == [data |-> d, published |-> FALSE]
    IN  IF ~HasAcm(parts) THEN unchanged
        ELSE IF Len(parts) < 3 THEN unchanged
        ELSE IF ~IsInt(parts[3]) THEN unchanged       \* int() raises, caught and logged
        ELSE LET zone_id == ParseInt(parts[3])
                 update_type == IF Len(parts) > 3 THEN parts[4] ELSE "status"
                 unique_key == UniqueKey(dev, zone_id)
             IN  IF dev = None THEN unchanged
                 ELSE IF unique_key \notin DOMAIN d THEN unchanged
                 ELSE [data |-> Put(d, unique_key, UpdatedZone(d[unique_key], update_type, body)),
                       published |-> TRUE]

-----------------------------------------------------------------------------
(* _handle_dev_data_event *)

HasAddr(node) == "addr" \in DOMAIN node

\* `if addr and self._device_id`
NodeAccepted(node, dev) == HasAddr(node) /\ node.addr # 0 /\ dev # None

\* A zone created for a node whose key is not in the store
SeedZone(node, dev, dname, gid, gname) ==
    [dev_id      |-> dev,
     device_id   |-> dev,
     device_name |-> dname,
     group_id    |-> gid,
     group_name  |-> gname,
     zone_id     |-> node.addr,
     name        |-> Get(node, "name", DefaultName(node.addr))]

\* zone.update({...}) with the node's data
NodeFields(node, zone, dname, gname) ==
    [name        |-> Get(node, "name", Get(zone, "name", None)),
     device_name |-> dname,
     group_name  |-> gname,
     status      |-> Get(node, "status", EmptyMap),
     setup       |-> Get(node, "setup", EmptyMap),
     version     |-> Get(node, "version", EmptyMap)]

\* One iteration of `for node in nodes` on the local mapping nd
MergeNode(nd, node, dev, dname, gid, gname) ==
    IF ~NodeAccepted(node, dev) THEN nd
    ELSE LET unique_key == UniqueKey(dev, node.addr)
             found == Get(nd, unique_key, EmptyMap)
             zone  == IF found = EmptyMap THEN SeedZone(node, dev, dname, gid, gname) ELSE found
         IN  Put(nd, unique_key, Update(zone, NodeFields(node, zone, dname, gname)))

\* The for loop over the whole node list
RECURSIVE MergeNodes(_, _, _, _, _, _)
MergeNodes(nd, ns, dev, dname, gid, gname) ==
    IF ns = <<>> THEN nd
    ELSE MergeNodes(MergeNode(nd, Head(ns), dev, dname, gid, gname), Tail(ns), dev, dname, gid, gname)

\* The whole handler on store d
HandleDevDataEvent(d, ns, dev, dname, gid, gname) ==
    IF ns = <<>> THEN [data |-> d, published |-> FALSE]
    ELSE [data |-> MergeNodes(d, ns, dev, dname, gid, gname), published |-> TRUE]

-----------------------------------------------------------------------------
(* Inputs of the store specification *)

MaxNodes == 2

S1 == [mtemp |-> "21", stemp |-> "20"]
S2 == [mtemp |-> "19"]
B1 == [mtemp |-> "22"]
U1 == [away |-> "1"]
V1 == [fw |-> "1.0"]

Node2 == [addr |-> 2, name |-> "Bath", status |-> S1]
Node3 == [addr |-> 3, name |-> "Bed", status |-> S2, setup |-> U1, version |-> V1]
Node3Bare == [addr |-> 3]
Node0 == [addr |-> 0, name |-> "Hall", status |-> S2]
NodeNoAddr == [name |-> "Loft"]

StoreNodes == {Node2, Node3, Node3Bare, Node0, NodeNoAddr}

RECURSIVE SeqsUpTo(_, _)
SeqsUpTo(S, n) ==
    IF n = 0 THEN {<<>>}
    ELSE LET shorter == SeqsUpTo(S, n - 1)
         IN  shorter \cup {Append(s, x) : s \in shorter, x \in S}

StoreNodeLists == SeqsUpTo(StoreNodes, MaxNodes)

\* path.split("/") of "/acm/<addr>/status"
StatusPath(a) == <<"", "acm", ToString(a), "status">>

StorePaths ==
    { <<"", "acm", "3", "status">>, <<"", "acm", "3", "setup">>, <<"", "acm", "3">>,
      <<"", "acm", "2", "status">>, <<"", "acm", "3", "version">>,
      <<"", "acm", "x", "status">>, <<"", "connected">> }

StoreUpdates == [path : StorePaths, body : {B1}]

\* Zones as the bootstrap REST fallback stores them (no name, setup or version)
RestZone(dev, dname, gid, gname, zone_id, status) ==
    [zone_id     |-> zone_id,
     status      |-> status,
     device_id   |-> dev,
     device_name |-> dname,
     group_id    |-> gid,
     group_name  |-> gname]

\* Zones as the bootstrap builds them from a dev_data node
BootZone(dev, dname, gid, gname, node) ==
    [zone_id     |-> node.addr,
     device_id   |-> dev,
     device_name |-> dname,
     group_id    |-> gid,
     group_name  |-> gname,
     name        |-> Get(node, "name", DefaultName(node.addr)),
     status      |-> Get(node, "status", EmptyMap),
     setup       |-> Get(node, "setup", EmptyMap),
     version     |-> Get(node, "version", EmptyMap)]

StoreInitialData ==
    { EmptyMap,
      Put(EmptyMap, UniqueKey("D1", 3), BootZone("D1", "Heater", "G1", "Home", Node3)),
      Put(EmptyMap, UniqueKey("D1", 3), RestZone("D1", "Heater", "G1", "Home", 3, S1)) }

-----------------------------------------------------------------------------
(* Constants of the listener *)

BaseDelay == 5              \* reconnect_delay = 5
MaxDelay == 60              \* min(reconnect_delay * 2, 60)
FallbackThreshold == 10     \* if self._consecutive_connection_failures >= 10
StaleWindow == 300          \* if time_since_update > 300
IdleWindow == 40            \* if elapsed > 40

-----------------------------------------------------------------------------
(* The frame codec: parse_engineio_payload and the posted packets *)

BinaryMarker == 0
FrameEnd == 255
RecordSeparator == 30
Colon == 58
DigitZero == 48
AsciiLimit == 128

\* bytes.decode("utf-8", errors="ignore") on bytes that are ASCII or 0xFF:
\* a byte that cannot occur in UTF-8 is left out
IsAscii(b) == b < AsciiLimit
Utf8Decode(bytes) == SelectSeq(bytes, IsAscii)

\* the first index at or after j whose byte is in stops, Len + 1 when there is none
RECURSIVE ScanUntil(_, _, _)
ScanUntil(bytes, j, stops) ==
    IF j > Len(bytes) \/ bytes[j] \in stops THEN j ELSE ScanUntil(bytes, j + 1, stops)

\* A variant that does not stop at a binary marker without 0xFF but skips the marker
RECURSIVE ParseFromNoBreak(_, _, _)
ParseFromNoBreak(bytes, i, msgs) ==
    IF i > Len(bytes) THEN msgs
    ELSE IF bytes[i] = BinaryMarker
    THEN LET j == ScanUntil(bytes, i + 1, {FrameEnd})
         IN  IF j <= Len(bytes)
             THEN LET msg_end == ScanUntil(bytes, j + 1, {BinaryMarker})
                  IN  ParseFromNoBreak(bytes, msg_end,
                                       Append(msgs, Utf8Decode(SubSeq(bytes, j + 1, msg_end - 1))))
             ELSE ParseFromNoBreak(bytes, i + 1, msgs)
    ELSE LET msg_end == ScanUntil(bytes, i, {BinaryMarker, RecordSeparator})
         IN  ParseFromNoBreak(bytes,
                              IF msg_end <= Len(bytes) THEN msg_end + 1 ELSE msg_end,
                              IF msg_end > i THEN Append(msgs, Utf8Decode(SubSeq(bytes, i, msg_end - 1)))
                                             ELSE msgs)

\* A variant whose `break` loses the messages decoded so far
AtUnterminatedDropping(msgs) == <<>>

\* `else: break` at a binary marker that no 0xFF follows: the loop ends with
\* the messages it has
AtUnterminated(msgs) == msgs

\* The while loop of parse_engineio_payload from index i (1-based) with the messages so far
RECURSIVE ParseFrom(_, _, _)
ParseFrom(bytes, i, msgs) ==
    IF i > Len(bytes) THEN msgs
    ELSE IF bytes[i] = BinaryMarker
    THEN LET j == ScanUntil(bytes, i + 1, {FrameEnd})
         IN  IF j <= Len(bytes)
             THEN LET msg_end == ScanUntil(bytes, j + 1, {BinaryMarker})
                  IN  ParseFrom(bytes, msg_end,
                                Append(msgs, Utf8Decode(SubSeq(bytes, j + 1, msg_end - 1))))
             ELSE AtUnterminated(msgs)
    ELSE LET msg_end == ScanUntil(bytes, i, {BinaryMarker, RecordSeparator})
         IN  ParseFrom(bytes,
                       IF msg_end <= Len(bytes) THEN msg_end + 1 ELSE msg_end,
                       IF msg_end > i THEN Append(msgs, Utf8Decode(SubSeq(bytes, i, msg_end - 1)))
                                      ELSE msgs)

parse_engineio_payload(bytes) == ParseFrom(bytes, 1, <<>>)

\* the loop is at a binary marker that no 0xFF follows
Unterminated(bytes, i) ==
    /\ bytes[i] = BinaryMarker
    /\ ScanUntil(bytes, i + 1, {FrameEnd}) > Len(bytes)

\* the value of i after the iteration of the while loop that starts at index i
StepIndex(bytes, i) ==
    IF bytes[i] = BinaryMarker
    THEN ScanUntil(bytes, ScanUntil(bytes, i + 1, {FrameEnd}) + 1, {BinaryMarker})
    ELSE LET msg_end == ScanUntil(bytes, i, {BinaryMarker, RecordSeparator})
         IN  IF msg_end <= Len(bytes) THEN msg_end + 1 ELSE msg_end

\* the messages after that iteration
StepMessages(bytes, i, msgs) ==
    IF bytes[i] = BinaryMarker
    THEN LET j == ScanUntil(bytes, i + 1, {FrameEnd})
         IN  Append(msgs, Utf8Decode(SubSeq(bytes, j + 1, StepIndex(bytes, i) - 1)))
    ELSE LET msg_end == ScanUntil(bytes, i, {BinaryMarker, RecordSeparator})
         IN  IF msg_end > i THEN Append(msgs, Utf8Decode(SubSeq(bytes, i, msg_end - 1))) ELSE msgs

\* the decimal digits of n, most significant first
RECURSIVE DigitValues(_)
DigitValues(n) == IF n < 10 THEN <<n>> ELSE Append(DigitValues(n \div 10), n % 10)

\* str(n) as ASCII
DecimalText(n) == [i \in 1..Len(DigitValues(n)) |-> DigitZero + DigitValues(n)[i]]

\* f"{len(event)}:{event}", the packet the coordinator posts
EncodePacket(text) == DecimalText(Len(text)) \o <<Colon>> \o text

\* An Engine.IO v3 binary-flagged frame as the server sends it: marker, the length
\* digits as byte values, 0xFF, then the text
BinaryFrame(text) == <<BinaryMarker>> \o DigitValues(Len(text)) \o <<FrameEnd>> \o text

MaxLen == 3
MaxGarbage == 1

Bytes == {BinaryMarker, RecordSeparator, FrameEnd, 52, 97}

Payloads == SeqsUpTo(Bytes, MaxLen)

\* Trailing bytes that are no frame: a binary marker that no 0xFF follows
Garbage == {<<BinaryMarker>> \o t : t \in SeqsUpTo(Bytes \ {FrameEnd}, MaxGarbage)}

CodecOff ==
    /\ c_pc = "off"
    /\ frame_payload = <<>>
    /\ framing = "none"
    /\ garbage = <<>>
    /\ wire = <<>>
    /\ messages = <<>>

InitCodecVars ==
    /\ c_pc = "new"
    /\ frame_payload \in Payloads
    /\ framing = "none"
    /\ garbage = <<>>
    /\ wire = <<>>
    /\ messages = <<>>

\* The coordinator builds a packet for the frame_payload
Encode ==
    /\ c_pc = "new"
    /\ wire' = EncodePacket(frame_payload)
    /\ framing' = "packet"
    /\ c_pc' = "framed"
    /\ UNCHANGED <<frame_payload, garbage, messages, storeVars, listenerVars, refreshVars, hostVars>>

\* The server sends the frame_payload in a binary-flagged frame
FrameBinary ==
    /\ c_pc = "new"
    /\ wire' = BinaryFrame(frame_payload)
    /\ framing' = "binary"
    /\ c_pc' = "framed"
    /\ UNCHANGED <<frame_payload, garbage, messages, storeVars, listenerVars, refreshVars, hostVars>>

\* The server sends the frame_payload as plain text
FrameText ==
    /\ c_pc = "new"
    /\ wire' = frame_payload
    /\ framing' = "text"
    /\ c_pc' = "framed"
    /\ UNCHANGED <<frame_payload, garbage, messages, storeVars, listenerVars, refreshVars, hostVars>>

\* Trailing garbage follows the frame (a text frame is closed by a record separator)
AppendGarbage(g) ==
    /\ c_pc = "framed"
    /\ framing \in {"binary", "text"}
    /\ garbage = <<>>
    /\ garbage' = g
    /\ wire' = wire \o (IF framing = "text" THEN <<RecordSeparator>> ELSE <<>>) \o g
    /\ UNCHANGED <<c_pc, frame_payload, framing, messages, storeVars, listenerVars, refreshVars, hostVars>>

\* messages = parse_engineio_payload(data)
Decode ==
    /\ c_pc = "framed"
    /\ messages' = parse_engineio_payload(wire)
    /\ c_pc' = "decoded"
    /\ UNCHANGED <<frame_payload, framing, garbage, wire, storeVars, listenerVars, refreshVars, hostVars>>

-----------------------------------------------------------------------------
(* ElnurGabarronAPI: the OAuth2 token calls *)

\* self._token_expires_at = None
NoExpiry == -1

\* result.get("expires_in", 3600)
DefaultExpiresIn == 3600

\* timedelta(minutes=5), in seconds
RefreshMargin == 300

\* the client as a value
ApiNow == [access_token |-> access_token, refresh_token |-> refresh_token,
           token_expires_at |-> token_expires_at]

\* the client after __init__
ApiFresh == [access_token |-> None, refresh_token |-> None, token_expires_at |-> NoExpiry]

\* The tokens and the expiry that a 200 answer stores, in the order of the
\* code: both tokens by .get, then the expiry; a value of expires_in that
\* timedelta rejects raises between the two.
StoreTokens(api, body, t) ==
    LET api1 == [api EXCEPT !.access_token = body.access_token,
                            !.refresh_token = body.refresh_token]
    IN  IF body.expires = "bad"
        THEN [api |-> api1, result |-> "raised"]
        ELSE [api |-> [api1 EXCEPT !.token_expires_at =
                          t + (IF body.expires = "absent" THEN DefaultExpiresIn
                               ELSE body.expires_in)],
              result |-> "true"]

\* an authenticate whose exception handler returns False instead of raising
AuthenticateSwallows(api, resp, t) ==
    IF resp.kind = "exc" THEN [api |-> api, result |-> "false"]
    ELSE IF resp.kind = "http_error" THEN [api |-> api, result |-> "false"]
    ELSE IF ~resp.body.json THEN [api |-> api, result |-> "false"]
    ELSE LET r == StoreTokens(api, resp.body, t)
         IN  [api |-> r.api, result |-> IF r.result = "raised" THEN "false" ELSE r.result]

\* authenticate(): the answer resp of the token endpoint is an exception of
\* the transport, a status other than 200, or a 200 whose body is or is not a
\* JSON object. Every exception raised inside the try block, that of
\* response.json() and of timedelta included, leaves as ElnurGabarronAPIError.
Authenticate(api, resp, t) ==
    IF resp.kind = "exc" THEN [api |-> api, result |-> "raised"]
    ELSE IF resp.kind = "http_error" THEN [api |-> api, result |-> "false"]
    ELSE IF ~resp.body.json THEN [api |-> api, result |-> "raised"]
    ELSE StoreTokens(api, resp.body, t)

\* a refresh that gives up where it cannot refresh
RefreshAccessTokenNoFallback(api, resp, auth_resp, t) ==
    IF api.refresh_token = None THEN [api |-> api, result |-> "false"]
    ELSE IF resp.kind = "exc" THEN [api |-> api, result |-> "false"]
    ELSE IF resp.kind = "http_error" THEN [api |-> api, result |-> "false"]
    ELSE IF ~resp.body.json THEN [api |-> api, result |-> "false"]
    ELSE LET r == StoreTokens(api, resp.body, t)
         IN  [api |-> r.api, result |-> IF r.result = "raised" THEN "false" ELSE r.result]

\* refresh_access_token(): resp is the answer to the refresh grant, auth_resp
\* the answer to the password grant of the fallback authenticate()
RefreshAccessToken(api, resp, auth_resp, t) ==
    IF api.refresh_token = None THEN Authenticate(api, auth_resp, t)
    ELSE IF resp.kind = "exc" THEN Authenticate(api, auth_resp, t)
    ELSE IF resp.kind = "http_error" THEN Authenticate(api, auth_resp, t)
    ELSE IF ~resp.body.json THEN Authenticate(api, auth_resp, t)
    ELSE LET r == StoreTokens(api, resp.body, t)
         IN  IF r.result = "raised" THEN Authenticate(r.api, auth_resp, t) ELSE r

\* _ensure_authenticated()
EnsureAuthenticated(api, resp, auth_resp, t) ==
    IF api.access_token = None THEN Authenticate(api, auth_resp, t)
    ELSE IF api.token_expires_at # NoExpiry /\ t >= api.token_expires_at - RefreshMargin
         THEN RefreshAccessToken(api, resp, auth_resp, t)
         ELSE [api |-> api, result |-> "true"]

\* async_get_access_token(): the token, or ElnurGabarronAPIError
AsyncGetAccessToken(api, resp, auth_resp, t) ==
    LET r == EnsureAuthenticated(api, resp, auth_resp, t)
    IN  IF r.result # "true" \/ r.api.access_token = None
        THEN [api |-> r.api, result |-> "raised"]
        ELSE [api |-> r.api, result |-> "token"]

\* the client is left as the call leaves it, and the call and its end recorded
ApiBecomes(call, r) ==
    /\ access_token' = r.api.access_token
    /\ refresh_token' = r.api.refresh_token
    /\ token_expires_at' = r.api.token_expires_at
    /\ api_call' = call
    /\ api_result' = r.result

ApiOff ==
    /\ access_token = ApiFresh.access_token
    /\ refresh_token = ApiFresh.refresh_token
    /\ token_expires_at = ApiFresh.token_expires_at
    /\ api_call = "none"
    /\ api_result = "none"

SetupOff ==
    /\ setup_pc = "idle"
    /\ coordinator_created = FALSE
    /\ entry_coordinator = FALSE
    /\ platforms_loaded = FALSE

\* no submission made and no entry there
FlowOff ==
    /\ flow_result = "none"
    /\ flow_error = "none"
    /\ flow_auth = "none"
    /\ entries = {}

\* the entity after __init__
EntityOff ==
    /\ optimistic_target_temp = NoTemp
    /\ optimistic_hvac_mode = None
    /\ optimistic_hvac_action = None
    /\ commands = <<>>
    /\ api_commands = <<>>
    /\ entity_tasks = <<>>

\* the client and the entry after construction
HostOff == ApiOff /\ SetupOff /\ FlowOff /\ EntityOff /\ last_poll = NoPoll /\ last_frame = 0

\* a client that authenticated at time 0 and an entry whose platforms are set
\* up, async_start being the next call of async_setup_entry
HostUp ==
    /\ access_token = "a1"
    /\ refresh_token = "r1"
    /\ token_expires_at = DefaultExpiresIn
    /\ api_call = "authenticate"
    /\ api_result = "true"
    /\ setup_pc = "start"
    /\ coordinator_created = TRUE
    /\ entry_coordinator = TRUE
    /\ platforms_loaded = TRUE
    /\ FlowOff
    /\ EntityOff
    /\ last_poll = NoPoll
    /\ last_frame = 0

-----------------------------------------------------------------------------
(* The store specification: events handled one after the other, the dev_data *)
(* handler node by node, and a consumer reading self.data at any moment.     *)

InitStoreVars ==
    /\ data \in StoreInitialData
    /\ device_id = "D1"
    /\ device_name = "Heater"
    /\ group_id = "G1"
    /\ group_name = "Home"
    /\ h_pc = "idle"
    /\ new_data = EmptyMap
    /\ nodes = <<>>
    /\ node_idx = 1
    /\ notify_count = 0
    /\ last_event = [name |-> "none", path |-> <<>>]
    /\ committed = data
    /\ reader_view = data

ctxVars == <<device_id, device_name, group_id, group_name>>

handlerVars == <<h_pc, new_data, nodes, node_idx>>

notStore == <<codecVars, listenerVars, refreshVars, hostVars>>

\* An update event, handled without suspension
UpdateEvent(ev) ==
    /\ h_pc = "idle"
    /\ LET r == HandleUpdateEvent(data, device_id, ev)
       IN  /\ data' = r.data
           /\ committed' = r.data
           /\ notify_count' = IF r.published THEN 1 ELSE 0
    /\ last_event' = [name |-> "update", path |-> ev.path]
    /\ UNCHANGED <<ctxVars, h_pc, new_data, nodes, node_idx, reader_view, notStore>>

\* dev_data: nodes = payload.get("nodes", []); empty returns, else new_data = dict(self.data)
DevDataBegin(ns) ==
    /\ h_pc = "idle"
    /\ notify_count' = 0
    /\ last_event' = [name |-> "dev_data", path |-> <<>>]
    /\ IF ns = <<>>
       THEN UNCHANGED <<h_pc, new_data, nodes, node_idx>>
       ELSE /\ h_pc' = "merging"
            /\ new_data' = data
            /\ nodes' = ns
            /\ node_idx' = 1
    /\ UNCHANGED <<ctxVars, data, committed, reader_view, notStore>>

\* A variant that writes each node straight into the published mapping
DevDataMergeInPlace ==
    /\ h_pc = "merging"
    /\ node_idx <= Len(nodes)
    /\ new_data' = MergeNode(new_data, nodes[node_idx], device_id, device_name, group_id, group_name)
    /\ data' = new_data'
    /\ node_idx' = node_idx + 1
    /\ UNCHANGED <<ctxVars, h_pc, nodes, notify_count, last_event, committed, reader_view, notStore>>

\* A variant that notifies the listeners for each node
DevDataMergeNotifying ==
    /\ h_pc = "merging"
    /\ node_idx <= Len(nodes)
    /\ new_data' = MergeNode(new_data, nodes[node_idx], device_id, device_name, group_id, group_name)
    /\ node_idx' = node_idx + 1
    /\ notify_count' = notify_count + 1
    /\ UNCHANGED <<ctxVars, data, h_pc, nodes, last_event, committed, reader_view, notStore>>

\* dev_data: one iteration of the for loop
DevDataMerge ==
    /\ h_pc = "merging"
    /\ node_idx <= Len(nodes)
    /\ new_data' = MergeNode(new_data, nodes[node_idx], device_id, device_name, group_id, group_name)
    /\ node_idx' = node_idx + 1
    /\ UNCHANGED <<ctxVars, data, h_pc, nodes, notify_count, last_event, committed, reader_view, notStore>>

\* dev_data: self.async_set_updated_data(new_data)
DevDataPublish ==
    /\ h_pc = "merging"
    /\ node_idx > Len(nodes)
    /\ data' = new_data
    /\ committed' = HandleDevDataEvent(committed, nodes, device_id, device_name, group_id, group_name).data
    /\ notify_count' = notify_count + 1
    /\ h_pc' = "idle"
    /\ new_data' = EmptyMap
    /\ nodes' = <<>>
    /\ node_idx' = 1
    /\ UNCHANGED <<ctxVars, last_event, reader_view, notStore>>

\* A consumer reads coordinator.data
Snapshot ==
    /\ reader_view' = data
    /\ UNCHANGED <<ctxVars, data, h_pc, new_data, nodes, node_idx, notify_count, last_event, committed, notStore>>

\* The state of a coordinator right after __init__, with no listener task
ListenerOff ==
    /\ sid = None
    /\ connected = FALSE
    /\ reconnect_count = 0
    /\ consecutive_connection_failures = 0
    /\ last_update_time = 0
    /\ l_pc = "none"
    /\ reconnect_delay = BaseDelay
    /\ last_activity = 0
    /\ poll_count = 0
    /\ booted = FALSE
    /\ now = 0
    /\ fallbacks = 0
    /\ failed_connects = 0
    /\ waits = 0
    /\ last_failure = "none"
    /\ exit_reason = "none"
    /\ alive = 0
    /\ last_refresh = NoRefresh
    /\ refresh_pc = "idle"
    /\ refresh_new_data = EmptyMap
    /\ refresh_todo = {}
    /\ first_refresh = "none"
    /\ HostOff

InitStore == InitStoreVars /\ CodecOff /\ ListenerOff

NextStore ==
    \/ \E ev \in StoreUpdates : UpdateEvent(ev)
    \/ \E ns \in StoreNodeLists : DevDataBegin(ns)
    \/ DevDataMerge
    \/ DevDataPublish

SpecStore == InitStore /\ [][NextStore]_vars

\* The same handlers on fewer inputs, with a consumer reading between any two steps
ReaderNodeLists == SeqsUpTo({Node2, Node3, Node3Bare}, MaxNodes)

ReaderUpdates == [path : {<<"", "acm", "3", "status">>, <<"", "acm", "2", "setup">>}, body : {B1}]

NextReader ==
    \/ \E ev \in ReaderUpdates : UpdateEvent(ev)
    \/ \E ns \in ReaderNodeLists : DevDataBegin(ns)
    \/ DevDataMerge
    \/ DevDataPublish
    \/ Snapshot

SpecReader == InitStore /\ [][NextReader]_vars

-----------------------------------------------------------------------------
(* _connect_socketio *)

Min(a, b) == IF a < b THEN a ELSE b

\* What one connect attempt meets: a token error, a handshake answered with a
\* non-200 status or without a leading "0" frame, an exception raised by the
\* namespace join or by the dev_data request, a join answered with a non-200
\* status, or no failure
ConnectOutcomes ==
    {"token_error", "http_error", "bad_handshake", "join_raise", "post_raise", "join_http_error", "ok"}

\* A variant that stores the session id the server offers before it looks at
\* the first frame, and joins the namespace whatever the frame is
ConnectSocketIOEager(o, s, cur_sid, cur_connected) ==
    IF o \in {"token_error", "http_error"}
    THEN [ok |-> FALSE, sid |-> cur_sid, connected |-> cur_connected, posts |-> <<>>]
    ELSE IF o = "bad_handshake"
    THEN [ok |-> FALSE, sid |-> s, connected |-> cur_connected, posts |-> <<"join">>]
    ELSE IF o = "join_raise"
    THEN [ok |-> FALSE, sid |-> s, connected |-> cur_connected, posts |-> <<"join">>]
    ELSE IF o = "post_raise"
    THEN [ok |-> FALSE, sid |-> s, connected |-> cur_connected, posts |-> <<"join", "dev_data">>]
    ELSE [ok |-> TRUE, sid |-> s, connected |-> TRUE, posts |-> <<"join", "dev_data">>]

\* A variant for which a join answered with a non-200 status ends the attempt
ConnectSocketIOStrictJoin(o, s, cur_sid, cur_connected) ==
    IF o \in {"token_error", "http_error", "bad_handshake"}
    THEN [ok |-> FALSE, sid |-> cur_sid, connected |-> cur_connected, posts |-> <<>>]
    ELSE IF o \in {"join_raise", "join_http_error"}
    THEN [ok |-> FALSE, sid |-> s, connected |-> cur_connected, posts |-> <<"join">>]
    ELSE IF o = "post_raise"
    THEN [ok |-> FALSE, sid |-> s, connected |-> cur_connected, posts |-> <<"join", "dev_data">>]
    ELSE [ok |-> TRUE, sid |-> s, connected |-> TRUE, posts |-> <<"join", "dev_data">>]

\* The attempt with outcome o, the server offering session id s: the return
\* value, the fields it leaves and the packets it has posted (the namespace
\* join, the dev_data request)
ConnectSocketIO(o, s, cur_sid, cur_connected) ==
    IF o \in {"token_error", "http_error", "bad_handshake"}
    THEN [ok |-> FALSE, sid |-> cur_sid, connected |-> cur_connected, posts |-> <<>>]
    ELSE IF o = "join_raise"
    THEN [ok |-> FALSE, sid |-> s, connected |-> cur_connected, posts |-> <<"join">>]
    ELSE IF o = "post_raise"
    THEN [ok |-> FALSE, sid |-> s, connected |-> cur_connected, posts |-> <<"join", "dev_data">>]
    ELSE [ok |-> TRUE, sid |-> s, connected |-> TRUE, posts |-> <<"join", "dev_data">>]

-----------------------------------------------------------------------------
(* _fetch_initial_data *)

\* api.get_device_status: the status dict, {} on a non-200 answer
RestStatus(r) == IF r.r = "ok" THEN r.status ELSE EmptyMap

\* One iteration of `for zone_id in [2, 3]`: a raised error skips the zone
RestPut(device_data, dev, dname, gid, gname, zone_id, r) ==
    IF r.r = "raise" THEN device_data
    ELSE Put(device_data, UniqueKey(dev, zone_id), RestZone(dev, dname, gid, gname, zone_id, RestStatus(r)))

\* The hard-coded zone discovery over REST
FallbackZones(dev, dname, gid, gname, r2, r3) ==
    RestPut(RestPut(EmptyMap, dev, dname, gid, gname, 2, r2), dev, dname, gid, gname, 3, r3)

\* device_data built from the nodes of a polled dev_data answer
RECURSIVE BootData(_, _, _, _, _, _)
BootData(device_data, ns, dev, dname, gid, gname) ==
    IF ns = <<>> THEN device_data
    ELSE BootData(Put(device_data, UniqueKey(dev, Head(ns).addr), BootZone(dev, dname, gid, gname, Head(ns))),
                  Tail(ns), dev, dname, gid, gname)

\* The first device of the directory and its group
FirstDevice == [dev_id |-> "D1", name |-> "Heater", group_id |-> "G1", group_name |-> "Home"]

\* The whole fetch under outcome fo:
\*   fo.devs    "raise" | "empty" | "ok": api.get_devices
\*   fo.conn, fo.s: the connect attempt and the session id offered
\*   fo.post_ok: the token and the dev_data request succeed
\*   fo.got, fo.nodes: a dev_data answer arrives within the 20 polls, and its nodes
\*   fo.r2, fo.r3: api.get_device_status for zones 2 and 3
\* Result: raised (UpdateFailed), the returned device_data, and the fields written.
FetchInitialData(fo, cur_ctx, cur_sid, cur_connected) ==
    IF fo.devs # "ok"
    THEN [raised |-> TRUE, data |-> EmptyMap, ctx |-> cur_ctx, sid |-> cur_sid, connected |-> cur_connected]
    ELSE LET dev == FirstDevice.dev_id
             dname == FirstDevice.name
             gid == FirstDevice.group_id
             gname == FirstDevice.group_name
             ctx == <<dev, dname, gid, gname>>
             c == ConnectSocketIO(fo.conn, fo.s, cur_sid, cur_connected)
             rest == FallbackZones(dev, dname, gid, gname, fo.r2, fo.r3)
         IN  IF ~c.ok
             THEN [raised |-> FALSE, data |-> rest, ctx |-> ctx, sid |-> c.sid, connected |-> c.connected]
             ELSE IF ~fo.post_ok
             THEN [raised |-> TRUE, data |-> EmptyMap, ctx |-> ctx, sid |-> c.sid, connected |-> c.connected]
             ELSE IF fo.got
             THEN [raised |-> FALSE, data |-> BootData(EmptyMap, fo.nodes, dev, dname, gid, gname),
                   ctx |-> ctx, sid |-> c.sid, connected |-> c.connected]
             ELSE [raised |-> FALSE, data |-> rest, ctx |-> ctx, sid |-> c.sid, connected |-> c.connected]

-----------------------------------------------------------------------------
(* The poll loop of _socketio_listener *)

\* `for msg in messages` from frame i on. st holds the fields and locals the loop
\* writes: data, last_activity, last_update_time, ccf (the failure counter),
\* connected, and what happened: closed (break on "1"), exc (an exception left the
\* loop), timedout (the pong post timed out), bad (an event could not be handled),
\* pongs (pongs posted).
\* A variant in which a close frame does not end the frame loop
LoopLeftPastClose(st) == st.exc \/ st.timedout

\* the frame loop has been left: `break` on "1", or an exception of the pong post
LoopLeft(st) == st.closed \/ st.exc \/ st.timedout

\* A variant that posts no pong
AnswerPingSilent(f, seen) == seen

\* `await self.session.post(url, data="3")` for the ping f: the pong is posted,
\* or the post times out, or it raises
AnswerPing(f, seen) ==
    IF f.pong = "ok" THEN [seen EXCEPT !.pongs = @ + 1]
    ELSE IF f.pong = "timeout" THEN [seen EXCEPT !.timedout = TRUE]
    ELSE [seen EXCEPT !.exc = TRUE]

RECURSIVE ProcessFrames(_, _, _, _)
ProcessFrames(frames, i, current_time, st) ==
    IF i > Len(frames) \/ LoopLeft(st) THEN st
    ELSE LET f == frames[i]
             seen == [st EXCEPT !.last_activity = current_time]
         IN  IF f.t \in {"empty", "noop"} THEN ProcessFrames(frames, i + 1, current_time, st)
             ELSE IF f.t = "close"
             THEN ProcessFrames(frames, i + 1, current_time,
                                [seen EXCEPT !.connected = FALSE, !.closed = TRUE])
             ELSE IF f.t = "ping"
             THEN ProcessFrames(frames, i + 1, current_time, AnswerPing(f, seen))
             ELSE IF f.t = "event"
             THEN LET got == [seen EXCEPT !.last_update_time = current_time, !.ccf = 0]
                      r == IF f.name = "update"
                           THEN HandleUpdateEvent(got.data, device_id, f.payload)
                           ELSE IF f.name = "dev_data"
                           THEN HandleDevDataEvent(got.data, f.payload.nodes, device_id, device_name,
                                                   group_id, group_name)
                           ELSE [data |-> got.data, published |-> FALSE]
                  IN  ProcessFrames(frames, i + 1, current_time,
                                    [got EXCEPT !.data = r.data,
                                                !.bad = @ \/ f.name = "malformed"])
             ELSE ProcessFrames(frames, i + 1, current_time, seen)     \* "40", "40/...", others

\* `if poll_count % 300 == 0`: the cycle posts the keepalive dev_data request
KeepaliveEvery == 300

\* A variant that posts the keepalive on every cycle
KeepaliveDueAlways(cycle) == TRUE

KeepaliveDue(cycle) == cycle % KeepaliveEvery = 0

\* the ping frames of a response
PingFrames(frames) == Cardinality({i \in 1..Len(frames) : frames[i].t = "ping"})

\* the response holds a frame: `messages` has an element that is not ""
HoldsFrame(resp) ==
    resp.kind = "ok" /\ \E i \in 1..Len(resp.frames) : resp.frames[i].t # "empty"

\* the response ends the session whatever the state
EndsSession(resp) ==
    \/ resp.kind \in {"exc", "http_error"}
    \/ resp.kind = "ok" /\ \E i \in 1..Len(resp.frames) : resp.frames[i].t = "close"

-----------------------------------------------------------------------------
(* The listener task *)

MaxFailures == 11
MaxPolls == 2

\* reconnect_delay = reconnect_delay * 2, without the ceiling
NextDelayUncapped(delay) == delay * 2

\* reconnect_delay = min(reconnect_delay * 2, 60)
NextDelay(delay) == Min(delay * 2, MaxDelay)

\* where an exception of the loop body would leave the task were it not caught
OnListenerErrorUncaught == "crashed"

\* where an exception raised in the loop body outside the poll loop leaves the
\* task: `except Exception` sleeps and retries
OnListenerError == "errsleep"

\* the staleness watchdog alone
WatchdogStaleOnly(current_time, update_time, activity_time) ==
    IF current_time - update_time > StaleWindow THEN "stale" ELSE "none"

\* The two watchdogs at the top of a poll iteration, stale first
Watchdog(current_time, update_time, activity_time) ==
    IF current_time - update_time > StaleWindow THEN "stale"
    ELSE IF current_time - activity_time > IdleWindow THEN "idle"
    ELSE "none"

\* the fields of the store that the listener's steps leave alone
storeIdle == <<handlerVars, notify_count, last_event, reader_view>>

\* async_config_entry_first_refresh: the bootstrap fetch. A failed fetch raises
\* to the caller, which sets the entry up again with a new coordinator.
Bootstrap(fo) ==
    /\ ~booted
    /\ l_pc = "none"
    /\ LET r == FetchInitialData(fo, <<device_id, device_name, group_id, group_name>>, sid, connected)
       IN  /\ first_refresh' = (IF r.raised THEN "raised" ELSE "ok")
           /\ IF r.raised
              THEN UNCHANGED <<data, committed, ctxVars, sid, connected, booted>>
              ELSE /\ data' = r.data
                   /\ committed' = r.data
                   /\ device_id' = r.ctx[1]
                   /\ device_name' = r.ctx[2]
                   /\ group_id' = r.ctx[3]
                   /\ group_name' = r.ctx[4]
                   /\ sid' = r.sid
                   /\ connected' = r.connected
                   /\ booted' = TRUE
    /\ UNCHANGED <<storeIdle, codecVars, refreshVars, hostVars, reconnect_count, consecutive_connection_failures,
                   last_update_time, l_pc, reconnect_delay, last_activity, poll_count, now,
                   fallbacks, failed_connects, waits, last_failure, exit_reason, alive>>

\* the positions of the listener task; "none" is no task created yet
ListenerPcs ==
    {"none", "connect", "fallback", "backoff", "errsleep", "polling", "cooldown", "cancelled",
     "crashed"}

\* a fallback fetch that would not let the cancellation through
RunningOutsideFetch(pc) == pc \in {"connect", "backoff", "errsleep", "polling", "cooldown"}

\* the task is created and not done
Running(pc) == pc \in {"connect", "fallback", "backoff", "errsleep", "polling", "cooldown"}

\* a start that never looks at the task it already has
StartsTaskAlways(pc) == TRUE

\* `if self._listener_task is None or self._listener_task.done()`
StartsTask(pc) == pc = "none" \/ pc \in {"cancelled", "crashed"}

\* async_start, called while the task is at one of the positions in callers: a
\* listener task is created unless one is running
AsyncStart(callers) ==
    /\ booted
    /\ l_pc \in callers
    /\ IF StartsTask(l_pc)
       THEN /\ l_pc' = "connect"
            /\ alive' = alive + 1
            /\ reconnect_delay' = BaseDelay
            /\ failed_connects' = 0
            /\ waits' = 0
            /\ last_failure' = "none"
            /\ exit_reason' = "none"
       ELSE UNCHANGED <<l_pc, alive, reconnect_delay, failed_connects, waits, last_failure,
                        exit_reason>>
    /\ UNCHANGED <<storeVars, codecVars, refreshVars, hostVars, sid, connected, reconnect_count,
                   consecutive_connection_failures, last_update_time, last_activity,
                   poll_count, booted, now, fallbacks, first_refresh>>

\* async_stop: a running task is cancelled wherever it waits and awaited, then
\* the connection flag is cleared
AsyncStop ==
    /\ booted
    /\ IF Running(l_pc)
       THEN /\ l_pc' = "cancelled"
            /\ alive' = alive - 1
       ELSE UNCHANGED <<l_pc, alive>>
    /\ connected' = FALSE
    /\ UNCHANGED <<storeVars, codecVars, refreshVars, hostVars, sid, reconnect_count, consecutive_connection_failures,
                   last_update_time, reconnect_delay, last_activity, poll_count, booted, now,
                   fallbacks, failed_connects, waits, last_failure, exit_reason, first_refresh>>

\* A connect attempt that fails below the fallback threshold; the task goes to
\* sleep for reconnect_delay
ConnectFail(o, s) ==
    /\ l_pc = "connect"
    /\ consecutive_connection_failures < MaxFailures
    /\ consecutive_connection_failures + 1 < FallbackThreshold
    /\ LET c == ConnectSocketIO(o, s, sid, connected)
       IN  /\ ~c.ok
           /\ sid' = c.sid
           /\ connected' = c.connected
    /\ reconnect_count' = reconnect_count + 1
    /\ consecutive_connection_failures' = consecutive_connection_failures + 1
    /\ l_pc' = "backoff"
    /\ failed_connects' = failed_connects + 1
    /\ waits' = waits + 1
    /\ last_failure' = "handshake"
    /\ exit_reason' = "none"
    /\ UNCHANGED <<storeVars, codecVars, refreshVars, hostVars, last_update_time, reconnect_delay, last_activity,
                   poll_count, booted, now, fallbacks, alive, first_refresh>>

\* A connect attempt that fails at or above the threshold: the REST fallback
\* fetch is started
ConnectFailFallback(o, s) ==
    /\ l_pc = "connect"
    /\ consecutive_connection_failures < MaxFailures
    /\ consecutive_connection_failures + 1 >= FallbackThreshold
    /\ LET c == ConnectSocketIO(o, s, sid, connected)
       IN  /\ ~c.ok
           /\ sid' = c.sid
           /\ connected' = c.connected
    /\ reconnect_count' = reconnect_count + 1
    /\ consecutive_connection_failures' = consecutive_connection_failures + 1
    /\ l_pc' = "fallback"
    /\ failed_connects' = failed_connects + 1
    /\ last_failure' = "none"
    /\ exit_reason' = "none"
    /\ UNCHANGED <<storeVars, codecVars, refreshVars, hostVars, last_update_time, reconnect_delay, last_activity,
                   poll_count, booted, now, fallbacks, waits, alive, first_refresh>>

\* The fallback fetch returns or raises: its result, if any, replaces the
\* published data, then the task sleeps
FallbackFetched(fo) ==
    /\ l_pc = "fallback"
    /\ LET r == FetchInitialData(fo, <<device_id, device_name, group_id, group_name>>, sid, connected)
       IN  /\ sid' = r.sid
           /\ connected' = r.connected
           /\ device_id' = r.ctx[1]
           /\ device_name' = r.ctx[2]
           /\ group_id' = r.ctx[3]
           /\ group_name' = r.ctx[4]
           /\ data' = IF r.raised THEN data ELSE r.data
           /\ committed' = IF r.raised THEN data ELSE r.data
           /\ fallbacks' = IF ConnectSocketIO(fo.conn, fo.s, sid, connected).ok /\ fo.devs = "ok"
                           THEN 0 ELSE fallbacks + 1
           /\ last_failure' = IF r.raised THEN "fallback" ELSE "handshake"
    /\ l_pc' = "backoff"
    /\ waits' = waits + 1
    /\ UNCHANGED <<storeIdle, codecVars, refreshVars, hostVars, reconnect_count, consecutive_connection_failures,
                   last_update_time, reconnect_delay, last_activity, poll_count, booted, now,
                   failed_connects, exit_reason, alive, first_refresh>>

\* A connect attempt that succeeds: counters and delay are reset, then the token
\* is fetched for the poll URL; a token error is an exception of the loop body
ConnectOk(o, s, token_ok) ==
    /\ l_pc = "connect"
    /\ LET c == ConnectSocketIO(o, s, sid, connected)
       IN  /\ c.ok
           /\ sid' = c.sid
           /\ connected' = c.connected
    /\ consecutive_connection_failures' = 0
    /\ reconnect_delay' = BaseDelay
    /\ last_activity' = now
    /\ last_update_time' = now
    /\ poll_count' = 0
    /\ fallbacks' = 0
    /\ failed_connects' = 0
    /\ exit_reason' = "none"
    /\ IF token_ok
       THEN /\ reconnect_count' = 0
            /\ l_pc' = "polling"
            /\ waits' = 0
            /\ last_failure' = "none"
       ELSE /\ reconnect_count' = 1
            /\ l_pc' = OnListenerError
            /\ waits' = 1
            /\ last_failure' = "token"
    /\ UNCHANGED <<storeVars, codecVars, refreshVars, hostVars, booted, now, alive, first_refresh>>

\* A variant whose loop ends after a sleep instead of starting over
AfterSleepDone == "crashed"

\* `while True`: after the sleep of a failed attempt the loop body starts over
\* with a connect attempt
AfterSleep == "connect"

\* asyncio.sleep(reconnect_delay) returns: the delay doubles up to the ceiling
BackoffElapsed ==
    /\ l_pc \in {"backoff", "errsleep"}
    /\ reconnect_delay' = NextDelay(reconnect_delay)
    /\ l_pc' = AfterSleep
    /\ last_failure' = "none"
    /\ UNCHANGED <<storeVars, codecVars, refreshVars, hostVars, sid, connected, reconnect_count,
                   consecutive_connection_failures, last_update_time, last_activity,
                   poll_count, booted, now, fallbacks, failed_connects, waits, exit_reason,
                   alive, first_refresh>>

\* asyncio.sleep(1) after the poll loop returns
CooldownElapsed ==
    /\ l_pc = "cooldown"
    /\ l_pc' = "connect"
    /\ last_failure' = "none"
    /\ UNCHANGED <<storeVars, codecVars, refreshVars, hostVars, sid, connected, reconnect_count,
                   consecutive_connection_failures, last_update_time, reconnect_delay,
                   last_activity, poll_count, booted, now, fallbacks, failed_connects, waits,
                   exit_reason, alive, first_refresh>>

\* a poll timeout handled like any other exception of the poll
OnPollTimeoutAsError(st) == [st EXCEPT !.exc = TRUE]

\* `except asyncio.TimeoutError: continue`: the iteration ends and the loop
\* goes on with what it had
OnPollTimeout(st) == st

\* One iteration of `while self._connected`: the watchdogs, then a poll that takes
\* d seconds and is answered by resp. The keepalive request of every 300th
\* iteration writes no field; an exception it raises is the answer "exc". The clock stops at horizon and a session
\* makes at most polls iterations unless the answer ends it.
Poll(d, resp, horizon, polls) ==
    /\ l_pc = "polling"
    /\ now + d <= horizon
    /\ poll_count < polls \/ EndsSession(resp)
    /\ LET current_time == now
           st0 == [data |-> data, last_activity |-> last_activity,
                   last_update_time |-> last_update_time,
                   ccf |-> consecutive_connection_failures, connected |-> connected,
                   closed |-> FALSE, exc |-> FALSE, timedout |-> FALSE, bad |-> FALSE,
                   pongs |-> 0]
           st == IF resp.kind = "ok" THEN ProcessFrames(resp.frames, 1, current_time, st0)
                 ELSE IF resp.kind = "http_error" THEN [st0 EXCEPT !.ccf = @ + 1]
                 ELSE IF resp.kind = "exc" THEN [st0 EXCEPT !.exc = TRUE]
                 ELSE IF resp.kind = "timeout" THEN OnPollTimeout(st0)
                 ELSE st0
           watchdog == Watchdog(current_time, last_update_time, last_activity)
           reason == IF ~connected THEN "flag"
                     ELSE IF watchdog # "none" THEN watchdog
                     ELSE IF st.exc THEN "exc"
                     ELSE IF resp.kind = "http_error" THEN "http"
                     ELSE IF st.closed THEN "close"
                     ELSE "none"
       IN  /\ exit_reason' = reason
           /\ last_poll' = IF reason \in {"flag", "stale", "idle"} THEN NoPoll
                           ELSE [keepalive |-> KeepaliveDue(poll_count + 1),
                                 pings |-> IF resp.kind = "ok" THEN PingFrames(resp.frames) ELSE 0,
                                 pongs |-> st.pongs]
           /\ last_frame' = IF reason \notin {"flag", "stale", "idle"} /\ HoldsFrame(resp)
                            THEN now + d ELSE last_frame
           /\ IF reason \in {"flag", "stale", "idle"}
              THEN /\ UNCHANGED <<data, committed, last_activity, last_update_time,
                                  consecutive_connection_failures, now>>
                   /\ poll_count' = IF reason = "flag" THEN poll_count ELSE poll_count + 1
                   /\ last_failure' = "none"
              ELSE /\ data' = st.data
                   /\ committed' = st.data
                   /\ last_activity' = st.last_activity
                   /\ last_update_time' = st.last_update_time
                   /\ consecutive_connection_failures' = st.ccf
                   /\ poll_count' = poll_count + 1
                   /\ now' = now + d
                   /\ last_failure' = IF reason = "exc" THEN "poll_exc"
                                      ELSE IF reason = "http" THEN "poll_http"
                                      ELSE IF st.bad THEN "bad_event"
                                      ELSE "none"
           /\ connected' = (reason = "none")
           /\ l_pc' = IF reason = "none" THEN "polling" ELSE "cooldown"
    /\ UNCHANGED <<ctxVars, storeIdle, codecVars, refreshVars, apiVars, setupVars, frontVars, sid,
                   reconnect_count, reconnect_delay, booted,
                   fallbacks, failed_connects, waits, alive, first_refresh>>

-----------------------------------------------------------------------------
(* async_request_refresh *)

\* the zone is refreshed over REST: `if device_id and zone_id`
Refreshable(zone) ==
    /\ "device_id" \in DOMAIN zone /\ zone.device_id # None
    /\ "zone_id" \in DOMAIN zone /\ zone.zone_id # 0

\* The REST path with the answers rest[zone_id] of api.get_device_status: one
\* raised error abandons the refresh, otherwise every refreshable zone gets the
\* fetched status and the mapping is published
RestRefresh(d, rest) ==
    IF \E k \in DOMAIN d : Refreshable(d[k]) /\ rest[d[k].zone_id].r = "raise"
    THEN [data |-> d, published |-> FALSE]
    ELSE [data |-> [k \in DOMAIN d |->
                      IF Refreshable(d[k]) THEN Put(d[k], "status", RestStatus(rest[d[k].zone_id]))
                      ELSE d[k]],
          published |-> TRUE]

\* a refresh that never uses the push channel
RefreshEffectRestOnly(o, d, conn, cur_sid) ==
    LET r == RestRefresh(d, o.rest)
    IN  [data |-> r.data, path |-> "rest", posts |-> <<>>,
         rest_calls |-> {d[k].zone_id : k \in {x \in DOMAIN d : Refreshable(d[x])}},
         published |-> r.published]

\* The whole call: over the push channel when the flag is set, a session id is
\* stored and the token fetch and the post raise nothing (o.push_ok), else over
\* REST. The result names the path taken, the session ids a snapshot request
\* was posted on, the zones the REST loop sets out to fetch, and the mapping it
\* leaves.
RefreshEffect(o, d, conn, cur_sid) ==
    IF conn /\ cur_sid # None /\ o.push_ok
    THEN [data |-> d, path |-> "push", posts |-> <<cur_sid>>, rest_calls |-> {},
          published |-> FALSE]
    ELSE LET r == RestRefresh(d, o.rest)
         IN  [data |-> r.data, path |-> "rest", posts |-> <<>>,
              rest_calls |-> {d[k].zone_id : k \in {x \in DOMAIN d : Refreshable(d[x])}},
              published |-> r.published]

RequestRefresh(o) ==
    /\ booted
    /\ LET e == RefreshEffect(o, data, connected, sid)
       IN  /\ data' = e.data
           /\ committed' = e.data
           /\ last_refresh' = [path |-> e.path, posts |-> e.posts, rest_calls |-> e.rest_calls,
                               published |-> e.published]
    /\ UNCHANGED <<ctxVars, storeIdle, codecVars, listenerVars, refreshStepVars, hostVars>>

-----------------------------------------------------------------------------
(* The codec specification: one frame_payload is framed, possibly followed by garbage, *)
(* and decoded.                                                                  *)

StoreOff ==
    /\ data = EmptyMap
    /\ device_id = None
    /\ device_name = None
    /\ group_id = None
    /\ group_name = None
    /\ h_pc = "idle"
    /\ new_data = EmptyMap
    /\ nodes = <<>>
    /\ node_idx = 1
    /\ notify_count = 0
    /\ last_event = [name |-> "none", path |-> <<>>]
    /\ committed = EmptyMap
    /\ reader_view = EmptyMap

InitCodec == InitCodecVars /\ StoreOff /\ ListenerOff

NextCodec ==
    \/ Encode
    \/ FrameBinary
    \/ FrameText
    \/ \E g \in Garbage : AppendGarbage(g)
    \/ Decode

SpecCodec == InitCodec /\ [][NextCodec]_vars

-----------------------------------------------------------------------------
(* The listener specification: a coordinator from construction on, with the *)
(* bootstrap, start and stop of the config entry and the listener task.     *)
(* The clock stands still: every poll is answered at once (the timers       *)
(* specification below moves the clock); consumers asking for a refresh are *)
(* the subject of the refresh specification.                                 *)

Sids == {"s1", "s2"}

RestOk == [r |-> "ok", status |-> S1]
RestRaise == [r |-> "raise"]
SpecRestOutcomes == {RestOk, RestRaise}

SpecBootNodeLists == {<<>>, <<Node2, Node3>>}

\* the outcomes of one _fetch_initial_data, fields that the outcome never reads
\* held at one value
FetchOutcome(devs, conn, s, post_ok, got, ns, r2, r3) ==
    [devs |-> devs, conn |-> conn, s |-> s, post_ok |-> post_ok, got |-> got, nodes |-> ns,
     r2 |-> r2, r3 |-> r3]

SpecFetchOutcomes ==
    {FetchOutcome(devs, "http_error", "s1", FALSE, FALSE, <<>>, RestRaise, RestRaise) :
        devs \in {"raise", "empty"}}
    \cup {FetchOutcome("ok", conn, "s1", FALSE, FALSE, <<>>, r2, r3) :
            conn \in {"http_error", "post_raise"}, r2 \in SpecRestOutcomes, r3 \in SpecRestOutcomes}
    \cup {FetchOutcome("ok", "ok", s, FALSE, FALSE, <<>>, RestRaise, RestRaise) : s \in Sids}
    \cup {FetchOutcome("ok", "ok", s, TRUE, TRUE, ns, RestRaise, RestRaise) :
            s \in Sids, ns \in SpecBootNodeLists}
    \cup {FetchOutcome("ok", "ok", "s2", TRUE, FALSE, <<>>, r2, r3) :
            r2 \in SpecRestOutcomes, r3 \in SpecRestOutcomes}

FrameNoop == [t |-> "noop"]
FrameClose == [t |-> "close"]
FrameAck == [t |-> "ack"]
FramePing == [t |-> "ping", pong |-> "ok"]
FramePingLost == [t |-> "ping", pong |-> "raise"]
FrameUpdate == [t |-> "event", name |-> "update", payload |-> [path |-> StatusPath(3), body |-> B1]]
FrameDevData == [t |-> "event", name |-> "dev_data", payload |-> [nodes |-> <<Node2>>]]
FrameMalformed == [t |-> "event", name |-> "malformed", payload |-> [text |-> "{"]]

\* the answers to one poll: no answer, an exception, a status >= 400, another
\* status below 400, and bodies of one or two frames
SpecResponses ==
    {[kind |-> k, frames |-> <<>>] : k \in {"timeout", "exc", "http_error", "http_other"}}
    \cup {[kind |-> "ok", frames |-> fs] :
            fs \in { <<>>, <<FrameNoop>>, <<FrameClose>>, <<FrameAck>>, <<FramePing>>,
                     <<FramePingLost>>, <<FrameUpdate>>, <<FrameDevData>>, <<FrameMalformed>>,
                     <<FrameClose, FrameUpdate>>, <<FrameMalformed, FrameUpdate>>,
                     <<FramePingLost, FrameDevData>>, <<FrameUpdate, FrameClose>> }}

Init == StoreOff /\ CodecOff /\ ListenerOff

Next ==
    \/ \E fo \in SpecFetchOutcomes : Bootstrap(fo)
    \/ AsyncStart({"none"})
    \/ AsyncStop
    \/ \E o \in ConnectOutcomes, s \in Sids : ConnectFail(o, s)
    \/ \E o \in ConnectOutcomes, s \in Sids : ConnectFailFallback(o, s)
    \/ \E fo \in SpecFetchOutcomes : FallbackFetched(fo)
    \/ \E o \in ConnectOutcomes, s \in Sids, token_ok \in BOOLEAN : ConnectOk(o, s, token_ok)
    \/ BackoffElapsed
    \/ CooldownElapsed
    \/ \E resp \in SpecResponses : Poll(0, resp, now, MaxPolls)

Spec == Init /\ [][Next]_vars

-----------------------------------------------------------------------------
(* The timers specification: a booted coordinator whose listener connects   *)
(* and polls against a clock; polls take 10 or 30 seconds and bring nothing, *)
(* a no-op, a ping or a data event.                                          *)

MaxTime == 320
MaxTimerPolls == 14

TimerPollTimes == {10, 30}

\* a "42" event of a name the router does not know
FrameOther == [t |-> "event", name |-> "other", payload |-> [text |-> "{}"]]

TimerResponses ==
    {[kind |-> "timeout", frames |-> <<>>]}
    \cup {[kind |-> "ok", frames |-> <<f>>] : f \in {FrameNoop, FramePing, FrameOther}}

InitTimers ==
    /\ data = BootData(EmptyMap, <<Node2, Node3>>, "D1", "Heater", "G1", "Home")
    /\ device_id = "D1"
    /\ device_name = "Heater"
    /\ group_id = "G1"
    /\ group_name = "Home"
    /\ h_pc = "idle"
    /\ new_data = EmptyMap
    /\ nodes = <<>>
    /\ node_idx = 1
    /\ notify_count = 0
    /\ last_event = [name |-> "none", path |-> <<>>]
    /\ committed = data
    /\ reader_view = EmptyMap
    /\ CodecOff
    /\ sid = "s1"
    /\ connected = TRUE
    /\ reconnect_count = 0
    /\ consecutive_connection_failures = 0
    /\ last_update_time = 0
    /\ l_pc = "none"
    /\ reconnect_delay = BaseDelay
    /\ last_activity = 0
    /\ poll_count = 0
    /\ booted = TRUE
    /\ now = 0
    /\ fallbacks = 0
    /\ failed_connects = 0
    /\ waits = 0
    /\ last_failure = "none"
    /\ exit_reason = "none"
    /\ alive = 0
    /\ last_refresh = NoRefresh
    /\ refresh_pc = "idle"
    /\ refresh_new_data = EmptyMap
    /\ refresh_todo = {}
    /\ first_refresh = "ok"
    /\ HostUp

NextTimers ==
    \/ AsyncStart({"none"})
    \/ ConnectOk("ok", "s2", TRUE)
    \/ CooldownElapsed
    \/ \E d \in TimerPollTimes, resp \in TimerResponses : Poll(d, resp, MaxTime, MaxTimerPolls)

SpecTimers == InitTimers /\ [][NextTimers]_vars

-----------------------------------------------------------------------------
(* The lifecycle specification: a booted coordinator on which async_start   *)
(* and async_stop are called in any order and at any position of the        *)
(* listener task, a stopped listener being started again.                    *)

LifeFetchOutcomes ==
    { FetchOutcome("raise", "http_error", "s2", FALSE, FALSE, <<>>, RestRaise, RestRaise),
      FetchOutcome("ok", "http_error", "s2", FALSE, FALSE, <<>>, RestOk, RestRaise),
      FetchOutcome("ok", "ok", "s2", TRUE, TRUE, <<Node2, Node3>>, RestRaise, RestRaise) }

LifeResponses ==
    {[kind |-> k, frames |-> <<>>] : k \in {"timeout", "http_error"}}
    \cup {[kind |-> "ok", frames |-> fs] : fs \in {<<FrameUpdate>>, <<FrameClose>>}}

InitLifecycle == InitTimers

NextLifecycle ==
    \/ AsyncStart(ListenerPcs)
    \/ AsyncStop
    \/ \E o \in {"http_error", "join_raise"} : ConnectFail(o, "s2")
    \/ ConnectFailFallback("http_error", "s2")
    \/ \E fo \in LifeFetchOutcomes : FallbackFetched(fo)
    \/ \E token_ok \in BOOLEAN : ConnectOk("ok", "s2", token_ok)
    \/ BackoffElapsed
    \/ CooldownElapsed
    \/ \E resp \in LifeResponses : Poll(0, resp, now, MaxPolls)

SpecLifecycle == InitLifecycle /\ [][NextLifecycle]_vars

-----------------------------------------------------------------------------
(* The refresh specification: a coordinator from construction on whose      *)
(* consumers ask for a refresh while the push channel comes and goes. A     *)
(* REST status request is answered, answered with an HTTP error, or raises. *)

RestHttpError == [r |-> "http_error"]
RefreshRestOutcomes == {RestOk, RestHttpError, RestRaise}

RefreshFetchOutcomes ==
    {FetchOutcome("ok", "http_error", "s1", FALSE, FALSE, <<>>, r2, r3) :
        r2 \in {RestOk, RestRaise}, r3 \in {RestOk, RestRaise}}
    \cup {FetchOutcome("ok", "ok", "s1", TRUE, TRUE, <<Node2, Node3>>, RestRaise, RestRaise)}

RefreshPollResponses ==
    {[kind |-> "timeout", frames |-> <<>>]}
    \cup {[kind |-> "ok", frames |-> fs] : fs \in {<<FrameUpdate>>, <<FrameDevData>>, <<FrameClose>>}}

RefreshOutcomes == [push_ok : BOOLEAN, rest : [{2, 3} -> RefreshRestOutcomes]]

NextRefresh ==
    \/ \E fo \in RefreshFetchOutcomes : Bootstrap(fo)
    \/ AsyncStart({"none", "cancelled"})
    \/ AsyncStop
    \/ \E token_ok \in BOOLEAN : ConnectOk("ok", "s2", token_ok)
    \/ BackoffElapsed
    \/ CooldownElapsed
    \/ \E resp \in RefreshPollResponses : Poll(0, resp, now, MaxPolls)
    \/ \E o \in RefreshOutcomes : RequestRefresh(o)

SpecRefresh == Init /\ [][NextRefresh]_vars

-----------------------------------------------------------------------------
(* The API specification: a client from construction on, on which            *)
(* authenticate, refresh_access_token and async_get_access_token are called  *)
(* while the clock moves; the token endpoint answers with an exception, an   *)
(* HTTP error, or a 200 whose body is or is not the JSON object expected.    *)

MaxApiTime == 3600

ApiTimeSteps == {300, 3000}

TokenBody(json, a, r, e, n) ==
    [json |-> json, access_token |-> a, refresh_token |-> r, expires |-> e, expires_in |-> n]

NotJson == TokenBody(FALSE, None, None, "absent", 0)

TokenResponses(a, r) ==
    {[kind |-> k, body |-> NotJson] : k \in {"exc", "http_error", "ok"}}
    \cup {[kind |-> "ok", body |-> b] :
            b \in {TokenBody(TRUE, a, r, "num", DefaultExpiresIn),
                   TokenBody(TRUE, a, r, "num", 600),
                   TokenBody(TRUE, a, r, "absent", 0),
                   TokenBody(TRUE, a, None, "num", DefaultExpiresIn),
                   TokenBody(TRUE, None, None, "absent", 0),
                   TokenBody(TRUE, a, r, "bad", 0)}}

\* the answers to the password grant and to the refresh grant
AuthResponses == TokenResponses("a1", "r1")
RefreshGrantResponses == TokenResponses("a2", "r2")

notApi == <<storeVars, codecVars, listenerVars, refreshVars, setupVars, frontVars, pollObs>>

ApiAuthenticate(resp) ==
    /\ ApiBecomes("authenticate", Authenticate(ApiNow, resp, now))
    /\ UNCHANGED notApi

ApiRefreshAccessToken(resp, auth_resp) ==
    /\ ApiBecomes("refresh_access_token", RefreshAccessToken(ApiNow, resp, auth_resp, now))
    /\ UNCHANGED notApi

ApiGetAccessToken(resp, auth_resp) ==
    /\ ApiBecomes("async_get_access_token", AsyncGetAccessToken(ApiNow, resp, auth_resp, now))
    /\ UNCHANGED notApi

\* time passes between two calls
ClockAdvance(d, horizon) ==
    /\ now + d <= horizon
    /\ now' = now + d
    /\ UNCHANGED <<storeVars, codecVars, refreshVars, hostVars, sid, connected, reconnect_count,
                   consecutive_connection_failures, last_update_time, l_pc, reconnect_delay,
                   last_activity, poll_count, booted, fallbacks, failed_connects, waits,
                   last_failure, exit_reason, alive, first_refresh>>

NextApi ==
    \/ \E resp \in AuthResponses : ApiAuthenticate(resp)
    \/ \E resp \in RefreshGrantResponses, auth_resp \in AuthResponses :
          ApiRefreshAccessToken(resp, auth_resp)
    \/ \E resp \in RefreshGrantResponses, auth_resp \in AuthResponses :
          ApiGetAccessToken(resp, auth_resp)
    \/ \E d \in ApiTimeSteps : ClockAdvance(d, MaxApiTime)

SpecApi == Init /\ [][NextApi]_vars

-----------------------------------------------------------------------------
(* async_setup_entry and the setup specification: the entry is set up once,  *)
(* from the authentication to the start of the listener, which then runs.    *)
(* The positions of async_setup_entry are "idle" (not called), "first_refresh" *)
(* (authenticated, coordinator constructed), "forward" (coordinator stored), *)
(* "start" (platforms set up), "done" (returned True), "not_ready"            *)
(* (ConfigEntryNotReady raised) and "failed" (another exception raised).     *)

\* a setup that goes on after authenticate() returned False
SetupAfterAuthLenient(result) == IF result = "raised" THEN "not_ready" ELSE "first_refresh"

\* where the authentication block leaves the setup: ConfigEntryNotReady
\* unless authenticate() returned True
SetupAfterAuth(result) == IF result = "true" THEN "first_refresh" ELSE "not_ready"

notSetupFront == <<storeVars, codecVars, listenerVars, refreshVars, pollObs>>

notSetup == <<notSetupFront, frontVars>>

\* lines 18-55: the client is created and authenticates; on success the
\* coordinator is constructed
SetupAuthenticate(resp) ==
    /\ setup_pc = "idle"
    /\ LET r == Authenticate(ApiNow, resp, now)
       IN  /\ ApiBecomes("authenticate", r)
           /\ setup_pc' = SetupAfterAuth(r.result)
           /\ coordinator_created' = (SetupAfterAuth(r.result) = "first_refresh")
    /\ UNCHANGED <<entry_coordinator, platforms_loaded, notSetup>>

\* line 59: await coordinator.async_config_entry_first_refresh()
SetupFirstRefresh(fo) ==
    /\ setup_pc = "first_refresh"
    /\ first_refresh = "none"
    /\ Bootstrap(fo)

\* lines 59-68: the first refresh has returned and the coordinator is stored
\* under the entry, or it has raised ConfigEntryNotReady
SetupStore ==
    /\ setup_pc = "first_refresh"
    /\ first_refresh # "none"
    /\ IF first_refresh = "ok"
       THEN setup_pc' = "forward" /\ entry_coordinator' = TRUE
       ELSE setup_pc' = "not_ready" /\ UNCHANGED entry_coordinator
    /\ UNCHANGED <<coordinator_created, platforms_loaded, apiVars, notSetup>>

\* line 72: await hass.config_entries.async_forward_entry_setups(entry, PLATFORMS)
SetupPlatforms(ok) ==
    /\ setup_pc = "forward"
    /\ IF ok
       THEN setup_pc' = "start" /\ platforms_loaded' = TRUE
       ELSE setup_pc' = "failed" /\ UNCHANGED platforms_loaded
    /\ UNCHANGED <<coordinator_created, entry_coordinator, apiVars, notSetup>>

\* line 77: await coordinator.async_start()
SetupStart ==
    /\ setup_pc = "start"
    /\ AsyncStart({"none"})

\* lines 79-80: return True
SetupReturn ==
    /\ setup_pc = "start"
    /\ l_pc # "none"
    /\ setup_pc' = "done"
    /\ UNCHANGED <<coordinator_created, entry_coordinator, platforms_loaded, apiVars, notSetup>>

SetupFetchOutcomes ==
    {FetchOutcome("empty", "http_error", "s1", FALSE, FALSE, <<>>, RestRaise, RestRaise),
     FetchOutcome("ok", "http_error", "s1", FALSE, FALSE, <<>>, RestOk, RestRaise),
     FetchOutcome("ok", "ok", "s1", TRUE, TRUE, <<Node2, Node3>>, RestRaise, RestRaise)}

SetupResponses ==
    {[kind |-> "timeout", frames |-> <<>>], [kind |-> "ok", frames |-> <<FrameUpdate>>],
     [kind |-> "ok", frames |-> <<FrameClose>>]}

NextSetup ==
    \/ \E resp \in AuthResponses : SetupAuthenticate(resp)
    \/ \E fo \in SetupFetchOutcomes : SetupFirstRefresh(fo)
    \/ SetupStore
    \/ \E ok \in BOOLEAN : SetupPlatforms(ok)
    \/ SetupStart
    \/ SetupReturn
    \/ \E token_ok \in BOOLEAN : ConnectOk("ok", "s2", token_ok)
    \/ BackoffElapsed
    \/ CooldownElapsed
    \/ \E resp \in SetupResponses : Poll(0, resp, now, MaxPolls)

SpecSetup == Init /\ [][NextSetup]_vars

-----------------------------------------------------------------------------
(* ElnurGabarronConfigFlow: the user step *)

\* f"{username}::{serial_id}"
UniqueId(username, serial_id) == username \o "::" \o serial_id

\* _test_connection: a client of its own is built and authenticate() is
\* awaited; crash stands for an exception that is no ElnurGabarronAPIError
\* (building the session or the client). The value authenticate() returns is
\* handed back to the caller.
TestConnection(resp, crash, t) ==
    IF crash THEN [auth |-> "none", raised |-> "other", value |-> "none"]
    ELSE LET r == Authenticate(ApiFresh, resp, t)
         IN  IF r.result = "raised"
             THEN [auth |-> "raised", raised |-> "api_error", value |-> "none"]
             ELSE [auth |-> r.result, raised |-> "none", value |-> r.result]

\* async_step_user without input: the empty form
FlowShowForm ==
    /\ flow_result' = "form"
    /\ flow_error' = "none"
    /\ flow_auth' = "none"
    /\ UNCHANGED <<entries, entityVars, apiVars, setupVars, notSetupFront>>

\* async_step_user with input: the unique id is set and checked, then the
\* connection is tested; the try has an except for ElnurGabarronAPIError, an
\* except for Exception and an else that creates the entry
FlowSubmit(username, serial_id, resp, crash) ==
    LET uid == UniqueId(username, serial_id)
        tc  == TestConnection(resp, crash, now)
    IN  /\ IF uid \in entries
           THEN /\ flow_result' = "abort"
                /\ flow_error' = "already_configured"
                /\ flow_auth' = "none"
                /\ UNCHANGED entries
           ELSE /\ flow_auth' = tc.auth
                /\ IF tc.raised = "api_error"
                   THEN /\ flow_result' = "form"
                        /\ flow_error' = "cannot_connect"
                        /\ UNCHANGED entries
                   ELSE IF tc.raised = "other"
                   THEN /\ flow_result' = "form"
                        /\ flow_error' = "unknown"
                        /\ UNCHANGED entries
                   ELSE /\ flow_result' = "create_entry"
                        /\ flow_error' = "none"
                        /\ entries' = entries \cup {uid}
        /\ UNCHANGED <<entityVars, apiVars, setupVars, notSetupFront>>

-----------------------------------------------------------------------------
(* The specification of the config flow: submissions of a few usernames and
   serial ids against every answer of the token endpoint *)

FlowUsernames == {"a@x", "b@x", "c@x"}

FlowSerials == {"7", "8"}

NextFlow ==
    \/ FlowShowForm
    \/ \E username \in FlowUsernames, serial_id \in FlowSerials, resp \in AuthResponses,
          crash \in BOOLEAN :
            FlowSubmit(username, serial_id, resp, crash)

SpecFlow == Init /\ [][NextFlow]_vars

-----------------------------------------------------------------------------
(* ElnurGabarronClimate: the entity of zone 3 of device D1 *)

\* _attr_max_temp
MaxTemp == 30

\* the default of `self.current_temperature or 20.0`
DefaultCurrentTemp == 20

\* _attr_hvac_modes
HvacModes == {"off", "heat", "auto"}

\* self._zone_key
ClimateZoneKey == UniqueKey("D1", 3)

\* float(temp_str) for the whole degrees up to the maximum; None for an empty
\* or missing string and for a ValueError
ParseTemp(s) ==
    IF \E n \in 0..MaxTemp : ToString(n) = s
    THEN CHOOSE n \in 0..MaxTemp : ToString(n) = s
    ELSE NoTemp

\* zone_data.get("status", {})
ZoneStatus(d) == Get(Get(d, ClimateZoneKey, EmptyMap), "status", EmptyMap)

\* the property current_temperature
CurrentTemperature(d) == ParseTemp(Get(ZoneStatus(d), "mtemp", ""))

\* the property target_temperature
TargetTemperature(d, opt_temp) ==
    IF opt_temp # NoTemp THEN opt_temp ELSE ParseTemp(Get(ZoneStatus(d), "stemp", ""))

\* the property hvac_mode
HvacMode(d, opt_mode) ==
    IF opt_mode # None THEN opt_mode
    ELSE LET mode == Get(ZoneStatus(d), "mode", "")
         IN  IF mode = "off" THEN "off"
             ELSE IF mode = "auto" THEN "auto"
             ELSE IF mode = "modified_auto" THEN "heat"
             ELSE "auto"

\* `x or y` for a temperature: None and 0.0 are falsy
OrTemp(x, y) == IF x = NoTemp \/ x = 0 THEN y ELSE x

\* the prediction of the action from the difference of target and current
PredictAction(target, current) == IF target - current > 1 THEN "heating" ELSE "idle"

\* the optimistic fields async_set_temperature assigns
OptimisticTemperature(d, temperature) ==
    [temp   |-> temperature,
     mode   |-> "heat",
     action |-> PredictAction(temperature, OrTemp(CurrentTemperature(d), DefaultCurrentTemp))]

\* the optimistic fields async_set_hvac_mode assigns; the target temperature
\* keeps its value
OptimisticMode(d, opt_temp, hvac_mode) ==
    LET current == OrTemp(CurrentTemperature(d), DefaultCurrentTemp)
        target  == OrTemp(TargetTemperature(d, opt_temp), current)
    IN  [temp   |-> opt_temp,
         mode   |-> hvac_mode,
         action |-> IF hvac_mode = "off" THEN "off" ELSE PredictAction(target, current)]

\* A variant in which the API call is made before the optimistic fields are
\* assigned
FieldsAtCallStale(old, new) == old

\* the optimistic fields at the moment the API call is made: the assignments
\* and async_write_ha_state precede the call
FieldsAtCall(old, new) == new

\* the mode string handed to api.set_mode, None for a mode with no branch
ApiMode(hvac_mode) ==
    IF hvac_mode = "off" THEN "off"
    ELSE IF hvac_mode = "auto" THEN "auto"
    ELSE IF hvac_mode = "heat" THEN "modified_auto"
    ELSE None

\* one call of the API as the log keeps it
ApiCall(kind, temp, mode, d, f) ==
    [kind |-> kind, temp |-> temp, mode |-> mode,
     target |-> TargetTemperature(d, f.temp), hvac_mode |-> HvacMode(d, f.mode)]

OptimisticNow ==
    [temp |-> optimistic_target_temp, mode |-> optimistic_hvac_mode,
     action |-> optimistic_hvac_action]

OptimisticBecomes(f) ==
    /\ optimistic_target_temp' = f.temp
    /\ optimistic_hvac_mode' = f.mode
    /\ optimistic_hvac_action' = f.action

notEntity == <<storeVars, codecVars, listenerVars, refreshVars, apiVars, setupVars, flowVars, pollObs>>

\* async_set_temperature up to the await of api.set_temperature; without a
\* temperature the call returns at once
ClimateSetTemperature(temperature, max_commands) ==
    /\ booted
    /\ Len(api_commands) < max_commands
    /\ IF temperature = NoTemp
       THEN UNCHANGED entityVars
       ELSE LET f == OptimisticTemperature(data, temperature)
            IN  /\ OptimisticBecomes(f)
                /\ api_commands' = Append(api_commands,
                        ApiCall("set_temperature", temperature, "modified_auto", data,
                                FieldsAtCall(OptimisticNow, f)))
                /\ commands' = Append(commands, "temperature")
                /\ UNCHANGED entity_tasks
    /\ UNCHANGED notEntity

\* async_set_hvac_mode up to the await of api.set_mode; a mode without a branch
\* is assigned and written, then the call returns with a warning
ClimateSetHvacMode(hvac_mode, max_commands) ==
    /\ booted
    /\ Len(api_commands) < max_commands
    /\ LET f == OptimisticMode(data, optimistic_target_temp, hvac_mode)
       IN  /\ OptimisticBecomes(f)
           /\ IF ApiMode(hvac_mode) = None
              THEN UNCHANGED <<api_commands, commands>>
              ELSE /\ api_commands' = Append(api_commands,
                           ApiCall("set_mode", NoTemp, ApiMode(hvac_mode), data,
                                   FieldsAtCall(OptimisticNow, f)))
                   /\ commands' = Append(commands, "mode")
    /\ UNCHANGED entity_tasks
    /\ UNCHANGED notEntity

\* the fields a command of this kind clears: all three after a temperature,
\* mode and action after a mode
Cleared(kind, f) ==
    [temp   |-> IF kind = "temperature" THEN NoTemp ELSE f.temp,
     mode   |-> None,
     action |-> None]

\* the rest of the handler once the API call of command i has ended: success
\* creates the two tasks, False reverts the optimistic fields, an
\* ElnurGabarronAPIError leaves the handler with the fields as they are
ClimateReturned(i, outcome) ==
    /\ i \in 1..Len(commands)
    /\ commands' = [j \in 1..(Len(commands) - 1) |-> IF j < i THEN commands[j] ELSE commands[j + 1]]
    /\ IF outcome = "true"
       THEN /\ entity_tasks' = entity_tasks \o <<commands[i], "refresh">>
            /\ UNCHANGED <<optimistic_target_temp, optimistic_hvac_mode, optimistic_hvac_action>>
       ELSE IF outcome = "false"
       THEN /\ OptimisticBecomes(Cleared(commands[i], OptimisticNow))
            /\ UNCHANGED entity_tasks
       ELSE UNCHANGED <<optimistic_target_temp, optimistic_hvac_mode, optimistic_hvac_action,
                        entity_tasks>>
    /\ UNCHANGED api_commands
    /\ UNCHANGED notEntity

\* the sleep of a task: 3 seconds for clear_and_refresh, 6 for
\* additional_refresh
TaskDelay(task) == IF task = "refresh" THEN 6 ELSE 3

\* Task i wakes: tasks of the same sleep wake in the order of their creation.
\* clear_and_refresh clears the fields of its command, then both kinds await
\* coordinator.async_request_refresh()
ClimateTask(i, o) ==
    /\ i \in 1..Len(entity_tasks)
    /\ \A j \in 1..(i - 1) : TaskDelay(entity_tasks[j]) # TaskDelay(entity_tasks[i])
    /\ entity_tasks' = [j \in 1..(Len(entity_tasks) - 1) |->
                            IF j < i THEN entity_tasks[j] ELSE entity_tasks[j + 1]]
    /\ IF entity_tasks[i] = "refresh"
       THEN UNCHANGED <<optimistic_target_temp, optimistic_hvac_mode, optimistic_hvac_action>>
       ELSE OptimisticBecomes(Cleared(entity_tasks[i], OptimisticNow))
    /\ LET e == RefreshEffect(o, data, connected, sid)
       IN  /\ data' = e.data
           /\ committed' = e.data
           /\ last_refresh' = [path |-> e.path, posts |-> e.posts, rest_calls |-> e.rest_calls,
                               published |-> e.published]
    /\ UNCHANGED <<commands, api_commands>>
    /\ UNCHANGED <<ctxVars, storeIdle, codecVars, listenerVars, refreshStepVars, apiVars,
                   setupVars, flowVars, pollObs>>

-----------------------------------------------------------------------------
(* The specification of the climate entity: commands, their API answers and
   their tasks over the booted coordinator *)

MaxCommands == 2

ClimateTemps == {NoTemp, 18, 23}

ClimateModes == HvacModes \cup {"fan_only"}

\* the statuses REST answers with for the two zones
ClimateRest == [mtemp |-> "21", stemp |-> "23", mode |-> "modified_auto"]

ClimateRefreshOutcomes ==
    {[push_ok |-> p, rest |-> [z \in {2, 3} |-> [r |-> "ok", status |-> ClimateRest]]] :
        p \in BOOLEAN}

NextClimate ==
    \/ \E temperature \in ClimateTemps : ClimateSetTemperature(temperature, MaxCommands)
    \/ \E hvac_mode \in ClimateModes : ClimateSetHvacMode(hvac_mode, MaxCommands)
    \/ \E i \in 1..MaxCommands, outcome \in {"true", "false", "raised"} : ClimateReturned(i, outcome)
    \/ \E i \in 1..(2 * MaxCommands), o \in ClimateRefreshOutcomes : ClimateTask(i, o)

SpecClimate == InitTimers /\ [][NextClimate]_vars

-----------------------------------------------------------------------------
(* ElnurGabarronEcoTempNumber: the economy temperature of zone 3 of device D1 *)

\* str(value) of a float with no fraction
FloatText(value) == ToString(value) \o ".0"

\* status = coordinator.data[zone_key].get("status", {}); status["eco_temp"] =
\* str(value): the status dict of the published mapping is written in place.
\* A zone without status gets the entry on a dict that is dropped.
EcoTempWritten(d, zone_key, value) ==
    IF zone_key \in DOMAIN d /\ "status" \in DOMAIN d[zone_key]
    THEN Put(d, zone_key, Put(d[zone_key], "status",
                              Put(d[zone_key].status, "eco_temp", FloatText(value))))
    ELSE d

\* async_set_native_value from the return of api.set_control on: the write
\* happens on success, nothing is published; False and an exception change
\* nothing
NumberSetNativeValue(value, outcome) ==
    /\ booted
    /\ h_pc = "idle"
    /\ data' = IF outcome = "true" THEN EcoTempWritten(data, ClimateZoneKey, value) ELSE data
    /\ UNCHANGED <<ctxVars, h_pc, new_data, nodes, node_idx, notify_count, last_event, committed,
                   reader_view, notStore>>

-----------------------------------------------------------------------------
(* The specification of the number entity: the push events of the store, a
   consumer reading, and the entity writing its value *)

NumberValues == {17, 25}

NumberNodeLists == SeqsUpTo({Node3, Node3Bare}, MaxNodes)

NextNumber ==
    \/ \E ev \in ReaderUpdates : UpdateEvent(ev)
    \/ \E ns \in NumberNodeLists : DevDataBegin(ns)
    \/ DevDataMerge
    \/ DevDataPublish
    \/ Snapshot
    \/ \E value \in NumberValues, outcome \in {"true", "false", "raised"} :
            NumberSetNativeValue(value, outcome)

SpecNumber == InitTimers /\ [][NextNumber]_vars

-----------------------------------------------------------------------------
(* async_request_refresh, one await at a time: the REST path copies self.data,
   awaits api.get_device_status zone by zone and publishes the copy *)

refreshOthers == <<ctxVars, storeIdle, codecVars, listenerVars, hostVars>>

\* the zone keys the loop awaits a fetch for
RefreshKeys(d) == {k \in DOMAIN d : Refreshable(d[k])}

\* the key the for loop is at
NextRefreshKey(todo) == CHOOSE k \in todo : TRUE

\* The call up to its first await of the REST path. Over the push channel the
\* request is posted and the call returns; with no zone to fetch the copy is
\* published at once.
RefreshBegin(push_ok) ==
    /\ booted
    /\ refresh_pc = "idle"
    /\ IF connected /\ sid # None /\ push_ok
       THEN /\ last_refresh' = [path |-> "push", posts |-> <<sid>>, rest_calls |-> {},
                                published |-> FALSE]
            /\ UNCHANGED <<data, committed, refreshStepVars>>
       ELSE IF RefreshKeys(data) = {}
       THEN /\ last_refresh' = [path |-> "rest", posts |-> <<>>, rest_calls |-> {},
                                published |-> TRUE]
            /\ UNCHANGED <<data, committed, refreshStepVars>>
       ELSE /\ refresh_pc' = "fetching"
            /\ refresh_new_data' = data
            /\ refresh_todo' = RefreshKeys(data)
            /\ last_refresh' = [path |-> "rest", posts |-> <<>>, rest_calls |-> {},
                                published |-> FALSE]
            /\ UNCHANGED <<data, committed>>
    /\ UNCHANGED refreshOthers

\* api.get_device_status returns for the zone the loop is at: an exception
\* abandons the refresh, otherwise the zone of the copy gets the status; after
\* the last zone the copy is published
RefreshFetched(r) ==
    /\ refresh_pc = "fetching"
    /\ LET k    == NextRefreshKey(refresh_todo)
           zone == refresh_new_data[k]
           nd   == Put(refresh_new_data, k, Put(zone, "status", RestStatus(r)))
           done == refresh_todo = {k}
           calls == last_refresh.rest_calls \cup {zone.zone_id}
       IN  IF r.r = "raise"
           THEN /\ refresh_pc' = "idle"
                /\ refresh_new_data' = EmptyMap
                /\ refresh_todo' = {}
                /\ last_refresh' = [last_refresh EXCEPT !.rest_calls = calls]
                /\ UNCHANGED <<data, committed>>
           ELSE /\ refresh_pc' = IF done THEN "idle" ELSE "fetching"
                /\ refresh_new_data' = IF done THEN EmptyMap ELSE nd
                /\ refresh_todo' = refresh_todo \ {k}
                /\ last_refresh' = [last_refresh EXCEPT !.rest_calls = calls, !.published = done]
                /\ data' = IF done THEN nd ELSE data
                /\ committed' = IF done THEN nd ELSE committed
    /\ UNCHANGED refreshOthers

-----------------------------------------------------------------------------
(* The specification of a refresh next to the listener: the coordinator polls,
   refreshes are requested, and the answers of REST and of the polls arrive in
   any order *)

\* a setup update for zone 3 and a snapshot with a zone the store does not have
FrameSetup ==
    [t |-> "event", name |-> "update",
     payload |-> [path |-> <<"", "acm", "3", "setup">>, body |-> B1]]

Node4 == [addr |-> 4, name |-> "Loft", status |-> S2]

FrameNewZone == [t |-> "event", name |-> "dev_data", payload |-> [nodes |-> <<Node4>>]]

RacePollResponses ==
    {[kind |-> "ok", frames |-> fs] : fs \in {<<FrameUpdate>>, <<FrameSetup>>, <<FrameNewZone>>}}

MaxRacePolls == 2

NextRace ==
    \/ AsyncStart({"none"})
    \/ ConnectOk("ok", "s2", TRUE)
    \/ \E push_ok \in BOOLEAN : RefreshBegin(push_ok)
    \/ \E r \in RefreshRestOutcomes : RefreshFetched(r)
    \/ \E resp \in RacePollResponses : Poll(0, resp, now, MaxRacePolls)

SpecRace == InitTimers /\ [][NextRace]_vars

-----------------------------------------------------------------------------
(* The specification of the keepalive: one booted coordinator whose listener
   polls with a frozen clock through more than 300 cycles, its sessions ended
   by close frames *)

MaxKeepalivePolls == 301

KeepaliveResponses ==
    {[kind |-> "timeout", frames |-> <<>>],
     [kind |-> "ok", frames |-> <<FrameNoop>>],
     [kind |-> "ok", frames |-> <<FrameClose>>]}

NextKeepalive ==
    \/ AsyncStart({"none"})
    \/ ConnectOk("ok", "s2", TRUE)
    \/ CooldownElapsed
    \/ \E resp \in KeepaliveResponses : Poll(0, resp, now, MaxKeepalivePolls)

SpecKeepalive == InitTimers /\ [][NextKeepalive]_vars

-----------------------------------------------------------------------------
(* Properties of the store *)

\* All fields of zone z other than field f are the same in z2
OtherFieldsSame(z, z2, f) ==
    /\ DOMAIN z2 \ {f} = DOMAIN z \ {f}
    /\ \A k \in DOMAIN z \ {f} : z2[k] = z[k]

\* The same keys, and all zones other than key are the same in d2
OtherZonesSame(d, d2, key) ==
    /\ DOMAIN d2 = DOMAIN d
    /\ \A k \in DOMAIN d \ {key} : d2[k] = d[k]


\* The zone key an update event is addressed to, when its path names one
Addressed(ev) == HasAcm(ev.path) /\ Len(ev.path) >= 3 /\ IsInt(ev.path[3])
TargetKey(ev) == UniqueKey(device_id, ParseInt(ev.path[3]))

\* C5 as stated: an update on /acm/<addr>/status of a stored zone changes only the
\* status entries carried in the body; the other status entries of the zone, its
\* other fields and the other zones are the same afterwards.
CE_C5 ==
    [][\A ev \in StoreUpdates : \A a \in 0..9 :
          (UpdateEvent(ev) /\ ev.path = StatusPath(a) /\ UniqueKey(device_id, a) \in DOMAIN data)
          => LET key == UniqueKey(device_id, a)
                 old == data[key].status
                 new == data'[key].status
             IN  /\ \A e \in DOMAIN ev.body : e \in DOMAIN new /\ new[e] = ev.body[e]
                 /\ \A e \in DOMAIN old \ DOMAIN ev.body : e \in DOMAIN new /\ new[e] = old[e]
                 /\ OtherFieldsSame(data[key], data'[key], "status")
                 /\ OtherZonesSame(data, data', key)]_vars

\* C5 amended: an update on /acm/<addr>/status of a stored zone replaces the zone's
\* status map by the body (status entries not in the body are dropped); the zone's
\* other fields and the other zones are the same afterwards, and it is published.
Thm_C5 ==
    [][\A ev \in StoreUpdates : \A a \in 0..9 :
          (UpdateEvent(ev) /\ ev.path = StatusPath(a) /\ UniqueKey(device_id, a) \in DOMAIN data)
          => LET key == UniqueKey(device_id, a)
             IN  /\ data'[key].status = ev.body
                 /\ OtherFieldsSame(data[key], data'[key], "status")
                 /\ OtherZonesSame(data, data', key)
                 /\ notify_count' = 1]_vars

\* A status update has replaced the status of zone 3, whose setup and version stay
Wit_C5 ==
    /\ last_event = [name |-> "update", path |-> StatusPath(3)]
    /\ UniqueKey("D1", 3) \in DOMAIN data
    /\ data[UniqueKey("D1", 3)].status = B1
    /\ Get(data[UniqueKey("D1", 3)], "setup", EmptyMap) = U1
    /\ notify_count = 1

\* C6: an update event addressed to a zone key that is not in the store creates no
\* zone, leaves the snapshot unchanged and notifies no listener.
Thm_C6 ==
    [][\A ev \in StoreUpdates :
          (UpdateEvent(ev) /\ Addressed(ev) /\ TargetKey(ev) \notin DOMAIN data)
          => /\ data' = data
             /\ TargetKey(ev) \notin DOMAIN data'
             /\ notify_count' = 0]_vars

\* An update for zone 2 has been handled while zone 2 is unknown and zone 3 is stored
Wit_C6 ==
    /\ last_event = [name |-> "update", path |-> StatusPath(2)]
    /\ UniqueKey("D1", 2) \notin DOMAIN data
    /\ UniqueKey("D1", 3) \in DOMAIN data
    /\ notify_count = 0

\* The nodes of a list that carry an address
WithAddr(ns) == {i \in 1..Len(ns) : HasAddr(ns[i])}

\* C7 as stated: a dev_data event with node addresses a1..an yields exactly the keys
\* D_zone<a1>..D_zone<an> besides the keys already stored, and a zone created for an
\* address that occurs once holds the node's name and status and the context of D.
CE_C7 ==
    [][DevDataPublish
          => /\ DOMAIN data' = DOMAIN data \cup {UniqueKey(device_id, nodes[i].addr) : i \in WithAddr(nodes)}
             /\ \A i \in WithAddr(nodes) :
                   LET key == UniqueKey(device_id, nodes[i].addr)
                   IN  (/\ key \notin DOMAIN data
                        /\ \A j \in WithAddr(nodes) : nodes[j].addr = nodes[i].addr => j = i)
                       => /\ key \in DOMAIN data'
                          /\ "name" \in DOMAIN nodes[i] => data'[key].name = nodes[i].name
                          /\ "status" \in DOMAIN nodes[i] => data'[key].status = nodes[i].status
                          /\ data'[key].device_id = device_id
                          /\ data'[key].device_name = device_name
                          /\ data'[key].group_id = group_id
                          /\ data'[key].group_name = group_name]_vars

\* C8: what a consumer can read is always the result of a whole number of events:
\* the published mapping equals the mapping obtained by applying every handled event
\* completely, also between the steps of the dev_data handler, and a read returns the
\* mapping published last.
Thm_C8 ==
    /\ [](data = committed)
    /\ [][Snapshot => reader_view' = committed]_vars

\* A consumer has read the old snapshot while the dev_data handler has merged its
\* first node into its private copy and has a second node left
Wit_C8 ==
    /\ h_pc = "merging"
    /\ node_idx = 2
    /\ Len(nodes) = 2
    /\ new_data # data
    /\ reader_view = data

-----------------------------------------------------------------------------
(* Properties of the codec *)

\* no byte of p is a frame delimiter
DelimFree(p) == \A i \in 1..Len(p) : p[i] \notin {BinaryMarker, RecordSeparator, FrameEnd}

\* C9 as stated: decoding the encoding of a delimiter-free frame_payload returns exactly
\* that frame_payload as the single message, for the posted packet, the binary frame and
\* the text frame; empty input decodes to the empty list; frames followed by
\* trailing garbage decode to the messages of the frames.
CE_C9 ==
    (c_pc = "decoded" /\ DelimFree(frame_payload))
    => /\ (garbage = <<>> /\ wire # <<>>) => messages = <<frame_payload>>
       /\ wire = <<>> => messages = <<>>
       /\ (garbage # <<>> /\ frame_payload # <<>>) => messages = <<frame_payload>>
       /\ (garbage # <<>> /\ frame_payload = <<>>)
             => messages = (IF framing = "binary" THEN <<frame_payload>> ELSE <<>>)

\* C9 amended: a binary frame and a non-empty text frame decode to exactly their
\* delimiter-free frame_payload as the single message, while the packet "<len>:<frame_payload>"
\* the coordinator posts decodes to one message that still carries the length prefix;
\* empty input decodes to the empty list; a frame followed by a binary marker that no
\* 0xFF follows decodes to the message of the frame only.
Thm_C9 ==
    (c_pc = "decoded" /\ DelimFree(frame_payload))
    => /\ (garbage = <<>> /\ framing \in {"binary", "text"} /\ wire # <<>>) => messages = <<frame_payload>>
       /\ framing = "packet" => messages = <<EncodePacket(frame_payload)>>
       /\ wire = <<>> => messages = <<>>
       /\ (garbage # <<>> /\ frame_payload # <<>>) => messages = <<frame_payload>>
       /\ (garbage # <<>> /\ frame_payload = <<>>)
             => messages = (IF framing = "binary" THEN <<frame_payload>> ELSE <<>>)

\* A binary frame with a two-byte frame_payload followed by garbage has been decoded
Wit_C9 ==
    /\ c_pc = "decoded"
    /\ framing = "binary"
    /\ frame_payload = <<52, 97>>
    /\ garbage = <<BinaryMarker, 52>>
    /\ messages = <<frame_payload>>

-----------------------------------------------------------------------------
(* Properties of the listener *)

\* the step is the end of a REST fallback fetch of the listener
FallbackStep == l_pc = "fallback" /\ l_pc' = "backoff"

\* C1: once a zone key is in the published snapshot it is in every later one:
\* no step of the coordinator removes a key of self.data
CE_C1 == [][DOMAIN data \subseteq DOMAIN data']_vars

\* C2: between two successful connects there is at most one REST fallback fetch,
\* the one of the failure that crosses the threshold; the failures after it
\* fetch nothing
CE_C2 == fallbacks <= 1

\* C17: a bootstrap fetch that returns normally returns at least one zone: it
\* raises when the directory has no device and when neither the push channel
\* nor the REST fallback yields a zone
CE_C17 == [][(~booted /\ booted') => data' # EmptyMap]_vars

\* min(5 * 2^(k-1), 60)
DelayAfter(k) == Min(BaseDelay * 2^(k - 1), MaxDelay)

\* C3 as stated: the delay waited after the k-th consecutive failed connect
\* attempt is min(5 * 2^(k-1), 60), it never exceeds 60, and after a successful
\* connect it is 5 again
CE_C3 ==
    /\ l_pc = "backoff" => reconnect_delay = DelayAfter(failed_connects)
    /\ reconnect_delay <= MaxDelay
    /\ l_pc = "polling" => reconnect_delay = BaseDelay

\* C3: the delay waited after the k-th consecutive failure of the listener since
\* its last successful connect, a failed connect attempt or an error raised in
\* the loop body right after a connect, is min(5 * 2^(k-1), 60); the delay never
\* exceeds 60; and a successful connect sets it to 5 again
Thm_C3 ==
    /\ l_pc \in {"backoff", "errsleep"} => waits >= 1 /\ reconnect_delay = DelayAfter(waits)
    /\ reconnect_delay <= MaxDelay
    /\ l_pc = "polling" => reconnect_delay = BaseDelay

\* the sixth wait in a row, at the ceiling, of a run opened by a token error
Wit_C3 ==
    /\ l_pc = "backoff"
    /\ waits = 6
    /\ failed_connects = 5
    /\ reconnect_delay = MaxDelay

\* a failure of the listed kinds has happened and the task sleeps before it
\* connects again (or was cancelled meanwhile)
Retrying(kinds, sleeps) == last_failure \in kinds => l_pc \in sleeps \cup {"cancelled"}

\* every sleep of the task ends in a connect attempt or in cancellation
SleepsLeadToConnect ==
    [][(l_pc \in {"backoff", "errsleep", "cooldown"}) => (l_pc' \in {l_pc, "connect", "cancelled"})]_vars

\* C10 as stated: the task never ends by itself, and each of the six failures,
\* the malformed or failing event included, puts it to sleep before a new
\* connect attempt
CE_C10 ==
    /\ [](/\ l_pc # "crashed"
          /\ Retrying({"handshake", "fallback", "token"}, {"backoff", "errsleep"})
          /\ Retrying({"poll_http", "poll_exc", "bad_event"}, {"cooldown"}))
    /\ SleepsLeadToConnect

\* C10: the task never ends by itself; a failed handshake, a failing REST
\* fallback and a token error after connect put it to sleep for the backoff
\* delay, a poll HTTP error and an exception raised while polling for the
\* cooldown, and each sleep ends in a new connect attempt; a malformed or
\* failing event is absorbed by the event handler and polling goes on in the
\* same session
Thm_C10 ==
    /\ [](/\ l_pc # "crashed"
          /\ Retrying({"handshake", "fallback", "token"}, {"backoff", "errsleep"})
          /\ Retrying({"poll_http", "poll_exc"}, {"cooldown"})
          /\ Retrying({"bad_event"}, {"polling", "cooldown"}))
    /\ SleepsLeadToConnect

\* the REST fallback has failed after the threshold and the task sleeps on
Wit_C10 ==
    /\ last_failure = "fallback"
    /\ l_pc = "backoff"
    /\ consecutive_connection_failures >= FallbackThreshold

-----------------------------------------------------------------------------
(* Properties of the timers *)

IdleAlone ==
    /\ l_pc = "cooldown"
    /\ exit_reason = "idle"
    /\ now - last_update_time <= StaleWindow

\* the step is a poll that was issued (flag set, both watchdogs silent) and
\* timed out
TimeoutPolled ==
    /\ l_pc = "polling"
    /\ connected
    /\ Watchdog(now, last_update_time, last_activity) = "none"
    /\ \E d \in TimerPollTimes :
          Poll(d, [kind |-> "timeout", frames |-> <<>>], MaxTime, MaxTimerPolls)

\* what a poll timeout leaves as it was
TimeoutKeeps ==
    /\ exit_reason' = "none"
    /\ l_pc' = "polling"
    /\ UNCHANGED <<reconnect_delay, reconnect_count, consecutive_connection_failures,
                   failed_connects, waits, sid, connected, data, committed, notify_count,
                   last_activity, last_update_time>>

-----------------------------------------------------------------------------
(* Properties of the lifecycle *)

\* C11: at most one listener task is alive at any time, and one is alive
\* exactly while the task is at a position of the loop; a task is created only
\* by a start made while none is running; and a stop made while none is
\* running clears the connection flag and changes nothing else
Thm_C11 ==
    /\ [](alive <= 1 /\ (alive = 1 <=> Running(l_pc)))
    /\ [][alive' > alive => (l_pc \in {"none", "cancelled", "crashed"} /\ l_pc' = "connect")]_vars
    /\ [][(AsyncStop /\ ~Running(l_pc)) =>
            (~connected' /\ UNCHANGED <<storeVars, codecVars, sid, reconnect_count,
                                         consecutive_connection_failures, last_update_time, l_pc,
                                         reconnect_delay, last_activity, poll_count, booted, now,
                                         fallbacks, failed_connects, waits, last_failure,
                                         exit_reason, alive>>)]_vars

\* a listener started again after a stop: the counter of the instance kept its
\* value while the waits of the new task start at zero
Wit_C11 ==
    /\ l_pc = "connect"
    /\ alive = 1
    /\ reconnect_count >= 2
    /\ waits = 0

\* C12: a stop made at any position of the listener leaves the task finished
\* and the connection flag false; while the task is finished the flag stays
\* false, no poll is made and no snapshot is published, until a start creates
\* a new task
Thm_C12 ==
    /\ [][AsyncStop => (l_pc' \in {"none", "cancelled", "crashed"} /\ ~connected' /\ alive' = 0)]_vars
    /\ [](l_pc = "cancelled" => (~connected /\ alive = 0))
    /\ [][l_pc = "cancelled" =>
            (/\ l_pc' \in {"cancelled", "connect"}
             /\ poll_count' = poll_count
             /\ data' = data
             /\ notify_count' = notify_count)]_vars

\* the task was cancelled during the REST fallback fetch of its tenth failure
Wit_C12 ==
    /\ l_pc = "cancelled"
    /\ consecutive_connection_failures >= FallbackThreshold
    /\ failed_connects > waits
    /\ ~connected

-----------------------------------------------------------------------------
(* Properties of the refresh *)

\* the flag says connected and a session id is stored
PushUp == connected /\ sid # None

\* C13 as stated: a refresh called while the push channel is connected posts
\* exactly one snapshot request on the current session, makes no REST call,
\* and neither changes nor publishes the snapshot -- whatever becomes of the
\* token fetch and the post.
CE_C13 ==
    PushUp =>
        \A o \in RefreshOutcomes :
            LET e == RefreshEffect(o, data, connected, sid)
            IN  /\ e.posts = <<sid>>
                /\ e.rest_calls = {}
                /\ ~e.published
                /\ e.data = data

\* C13, amended: a refresh called while the push channel is connected, and
\* whose token fetch and post raise nothing, posts exactly one snapshot request
\* on the current session, makes no REST call, and neither changes nor
\* publishes the snapshot; the step of the call leaves the whole store as it
\* was.
Thm_C13 ==
    /\ [](PushUp =>
            \A o \in RefreshOutcomes :
                o.push_ok =>
                    LET e == RefreshEffect(o, data, connected, sid)
                    IN  /\ e.posts = <<sid>>
                        /\ e.rest_calls = {}
                        /\ ~e.published
                        /\ e.data = data)
    /\ [][(last_refresh' # last_refresh /\ last_refresh'.path = "push") =>
            (/\ PushUp
             /\ last_refresh'.posts = <<sid>>
             /\ last_refresh'.rest_calls = {}
             /\ UNCHANGED <<storeVars, listenerVars>>)]_vars

\* a refresh has gone over the push channel of a polling listener whose
\* mapping holds zones
Wit_C13 ==
    /\ last_refresh.path = "push"
    /\ last_refresh.posts = <<sid>>
    /\ l_pc = "polling"
    /\ data # EmptyMap

\* C14: whenever the listener is not in its poll loop (before start, in a
\* backoff or error sleep, during cooldown, after cancellation) the connection
\* flag is false, and a refresh called then posts no snapshot request on the
\* stored session id: it takes the REST path
CE_C14 ==
    l_pc # "polling" =>
        /\ ~connected
        /\ \A o \in RefreshOutcomes : RefreshEffect(o, data, connected, sid).posts = <<>>

\* C15: in a REST refresh over the known zones, a zone whose status fetch
\* fails (HTTP error or raised error) keeps its stored status, every zone whose
\* fetch succeeded gets the fetched status, and the result is published
CE_C15 ==
    booted =>
        \A o \in RefreshOutcomes :
            LET r == RestRefresh(data, o.rest)
            IN  /\ r.published
                /\ \A k \in DOMAIN data :
                      Refreshable(data[k]) =>
                          LET answer == o.rest[data[k].zone_id]
                          IN  IF answer.r = "ok"
                              THEN Get(r.data[k], "status", None) = answer.status
                              ELSE Get(r.data[k], "status", None) = Get(data[k], "status", None)

-----------------------------------------------------------------------------
(* Properties of the API client *)

\* C18 as stated: authenticate() has exactly three outcomes: a 200 returns
\* True and stores the tokens of the response, any other status returns False
\* and leaves tokens and expiry unchanged, and a transport exception raises
\* and leaves them unchanged
CE_C18 ==
    \A resp \in AuthResponses :
        LET r == Authenticate(ApiNow, resp, now)
        IN  /\ resp.kind = "ok" =>
                  /\ r.result = "true"
                  /\ r.api.access_token = resp.body.access_token
                  /\ r.api.refresh_token = resp.body.refresh_token
            /\ resp.kind = "http_error" => (r.result = "false" /\ r.api = ApiNow)
            /\ resp.kind = "exc" => (r.result = "raised" /\ r.api = ApiNow)

\* the body of the 200 answer is a JSON object whose expires_in, if present,
\* is a number
WellFormed(resp) == resp.body.json /\ resp.body.expires # "bad"

\* C18, amended: a 200 with a well-formed body returns True, stores the
\* tokens of the response (None for one that is absent) and sets the expiry to
\* now + expires_in (3600 if absent); any other status returns False and a
\* transport exception raises, both leaving tokens and expiry unchanged; a 200
\* whose body is not JSON raises and leaves them unchanged; a 200 whose
\* expires_in is no number raises after the tokens were stored, the expiry
\* unchanged. The steps of the call leave the client as the outcome says.
Thm_C18 ==
    /\ [](\A resp \in AuthResponses :
            LET r == Authenticate(ApiNow, resp, now)
            IN  /\ r.result \in {"true", "false", "raised"}
                /\ (resp.kind = "ok" /\ WellFormed(resp)) =>
                      /\ r.result = "true"
                      /\ r.api.access_token = resp.body.access_token
                      /\ r.api.refresh_token = resp.body.refresh_token
                      /\ r.api.token_expires_at =
                            now + (IF resp.body.expires = "absent" THEN DefaultExpiresIn
                                   ELSE resp.body.expires_in)
                /\ resp.kind = "http_error" => (r.result = "false" /\ r.api = ApiNow)
                /\ resp.kind = "exc" => (r.result = "raised" /\ r.api = ApiNow)
                /\ (resp.kind = "ok" /\ ~resp.body.json) => (r.result = "raised" /\ r.api = ApiNow)
                /\ (resp.kind = "ok" /\ resp.body.json /\ resp.body.expires = "bad") =>
                      /\ r.result = "raised"
                      /\ r.api.access_token = resp.body.access_token
                      /\ r.api.refresh_token = resp.body.refresh_token
                      /\ r.api.token_expires_at = token_expires_at)
    /\ [][(\E resp \in AuthResponses : ApiAuthenticate(resp)) =>
            /\ api_result' \in {"true", "false", "raised"}
            /\ api_result' = "false" => ApiNow' = ApiNow
            /\ api_result' = "true" =>
                  (access_token' \in {None, "a1"} /\ token_expires_at' > now)]_vars

\* a client that held refreshed tokens has authenticated anew: the tokens of
\* the answer replace them and the expiry is an hour ahead
Wit_C18 ==
    /\ api_call = "authenticate"
    /\ api_result = "true"
    /\ access_token = "a1"
    /\ refresh_token = "r1"
    /\ token_expires_at = now + DefaultExpiresIn
    /\ now > 0

\* the refresh grant succeeds: a refresh token is stored and the answer is a
\* well-formed 200
Refreshed(resp) == refresh_token # None /\ resp.kind = "ok" /\ WellFormed(resp)

\* the fallback authenticate() succeeds
Reauthenticated(auth_resp) == auth_resp.kind = "ok" /\ WellFormed(auth_resp)

\* C19: refresh_access_token() falls back to a full authenticate() whenever it
\* cannot refresh (no refresh token stored, a non-200 answer, an exception
\* during the refresh): its outcome is then the outcome of that authenticate();
\* it returns True exactly when the refresh or the fallback authentication
\* succeeded; and after True the stored access token is the one of the answer
\* that succeeded
Thm_C19 ==
    /\ [](\A resp \in RefreshGrantResponses, auth_resp \in AuthResponses :
            LET r == RefreshAccessToken(ApiNow, resp, auth_resp, now)
                fallback == Authenticate(ApiNow, auth_resp, now)
            IN  /\ Refreshed(resp) =>
                      (r.result = "true" /\ r.api.access_token = resp.body.access_token)
                /\ ~Refreshed(resp) =>
                      /\ r.result = fallback.result
                      /\ r.result = "true" => r.api = fallback.api
                /\ r.result = "true" <=> (Refreshed(resp) \/ Reauthenticated(auth_resp))
                /\ r.result = "true" =>
                      r.api.access_token = (IF Refreshed(resp) THEN resp.body.access_token
                                            ELSE auth_resp.body.access_token))
    /\ [][(\E resp \in RefreshGrantResponses, auth_resp \in AuthResponses :
              ApiRefreshAccessToken(resp, auth_resp)) =>
            /\ (refresh_token = None /\ api_result' = "true") => access_token' \in {None, "a1"}
            /\ api_result' = "true" => token_expires_at' > now
            /\ api_result' = "false" =>
                  (token_expires_at' = token_expires_at /\ access_token' \in {access_token, "a2"})]_vars

\* a refresh_access_token() that could not refresh has authenticated anew: the
\* client holds the tokens of the password grant
Wit_C19 ==
    /\ api_call = "refresh_access_token"
    /\ api_result = "true"
    /\ access_token = "a1"
    /\ refresh_token = "r1"
    /\ token_expires_at = now + 600
    /\ now > 0

-----------------------------------------------------------------------------
(* Properties of the setup *)

\* C20: async_setup_entry raises ConfigEntryNotReady whenever authenticate()
\* returns False or raises, and then no coordinator is constructed or stored
\* under the entry, no bootstrap fetch is made and no listener is started; on
\* success the listener task is created only after the first refresh has
\* succeeded, the coordinator is stored and the platforms are set up
Thm_C20 ==
    /\ [][(\E resp \in AuthResponses : SetupAuthenticate(resp)) =>
            (api_result' \in {"false", "raised"} <=> setup_pc' = "not_ready")]_vars
    /\ [](api_result \in {"false", "raised"} =>
            /\ setup_pc = "not_ready"
            /\ ~coordinator_created
            /\ ~entry_coordinator
            /\ first_refresh = "none" /\ ~booted
            /\ l_pc = "none" /\ alive = 0)
    /\ [](l_pc # "none" =>
            /\ api_result = "true"
            /\ first_refresh = "ok" /\ booted
            /\ entry_coordinator
            /\ platforms_loaded)
    /\ [][alive' > alive =>
            (setup_pc = "start" /\ first_refresh = "ok" /\ platforms_loaded)]_vars

\* authenticate() has returned False and the setup has raised
\* ConfigEntryNotReady
Wit_C20 ==
    /\ setup_pc = "not_ready"
    /\ api_call = "authenticate"
    /\ api_result = "false"
    /\ ~coordinator_created

\* the setup has returned True and the listener polls
SetupDonePolling ==
    /\ setup_pc = "done"
    /\ l_pc = "polling"
    /\ platforms_loaded


-----------------------------------------------------------------------------
(* Properties of the dev_data merge *)

\* the fields of a node that the merge writes
NodeFieldNames == {"name", "status", "setup", "version"}

\* the node the for loop of the dev_data handler is at merges into a zone that
\* the local mapping already holds
MergesIntoExisting ==
    /\ h_pc = "merging"
    /\ node_idx <= Len(nodes)
    /\ NodeAccepted(nodes[node_idx], device_id)
    /\ UniqueKey(device_id, nodes[node_idx].addr) \in DOMAIN new_data
    /\ new_data[UniqueKey(device_id, nodes[node_idx].addr)] # EmptyMap

\* C23 as stated: a node for an existing zone replaces the fields it carries,
\* and every field of name, status, setup, version it does not carry keeps the
\* stored value.
CE_C23 ==
    [][(MergesIntoExisting /\ DevDataMerge) =>
        LET node == nodes[node_idx]
            key  == UniqueKey(device_id, node.addr)
        IN  \A f \in NodeFieldNames :
                /\ f \in DOMAIN node => new_data'[key][f] = node[f]
                /\ (f \notin DOMAIN node /\ f \in DOMAIN new_data[key]) =>
                        new_data'[key][f] = new_data[key][f]]_vars

\* a published zone has lost its status to a node that carried none
StatusWiped ==
    /\ h_pc = "idle"
    /\ last_event.name = "dev_data"
    /\ notify_count = 1
    /\ UniqueKey("D1", 3) \in DOMAIN data
    /\ data[UniqueKey("D1", 3)].status = EmptyMap
    /\ data[UniqueKey("D1", 3)].name = "Bed"

-----------------------------------------------------------------------------
(* Properties of the published mapping *)

\* C24 as stated: the published mapping and the maps reachable from it keep
\* the content they were published with; the mapping a consumer sees changes
\* only when a new one is published.
CE_C24 ==
    /\ data = committed
    /\ \A k \in DOMAIN data :
            "status" \in DOMAIN data[k] => data[k].status = committed[k].status

\* the published status of zone 3 holds an eco_temp that no publication put
\* there
WrittenInPlace ==
    /\ h_pc = "idle"
    /\ ClimateZoneKey \in DOMAIN data
    /\ Get(ZoneStatus(data), "eco_temp", None) = "17.0"
    /\ Get(ZoneStatus(committed), "eco_temp", None) = None

-----------------------------------------------------------------------------
(* Properties of the failure counter *)

\* the step is a poll that was answered with a status >= 400
PollHttpError == l_pc = "polling" /\ exit_reason' = "http" /\ last_failure' = "poll_http"

\* C25 as stated: a poll answered with an HTTP error status leaves the count
\* that is compared with the threshold as it is, and a REST fallback fetch
\* starts only at the tenth or a later consecutive failed connect attempt.
CE_C25 ==
    [][/\ PollHttpError =>
            consecutive_connection_failures' = consecutive_connection_failures
       /\ fallbacks' > fallbacks => failed_connects' >= FallbackThreshold]_vars

\* the listener runs a fallback fetch after nine failed connect attempts
EarlyFallback ==
    /\ l_pc = "fallback"
    /\ failed_connects = FallbackThreshold - 1
    /\ consecutive_connection_failures = FallbackThreshold

-----------------------------------------------------------------------------
(* Properties of the fallback of the listener *)

\* C26 as stated: the fallback fetch of the listener leaves the set of zone
\* keys as it is and changes nothing of a zone but its status.
CE_C26 ==
    [][FallbackStep =>
        /\ DOMAIN data' = DOMAIN data
        /\ \A k \in DOMAIN data : OtherFieldsSame(data[k], data'[k], "status")]_vars

\* after a fallback fetch that returned, zone 3 is published without the name,
\* setup and version the bootstrap had stored
FallbackDroppedFields ==
    /\ l_pc = "backoff"
    /\ last_failure = "handshake"
    /\ fallbacks >= 1
    /\ UniqueKey("D1", 3) \in DOMAIN data
    /\ DOMAIN data[UniqueKey("D1", 3)] \cap {"name", "setup", "version"} = {}
    /\ booted

-----------------------------------------------------------------------------
(* Properties of the writers of the session *)

\* C27 as stated: only a step of the running listener task writes the session
\* id or the connection flag; the bootstrap fetch, a refresh and a stop write
\* neither.
CE_C27 ==
    [][(sid' # sid \/ connected' # connected) =>
            (Running(l_pc) /\ l_pc' # "cancelled")]_vars

\* the bootstrap fetch has left a session id and a set flag behind, and no
\* listener task exists
SessionWithoutListener ==
    /\ booted
    /\ l_pc = "none"
    /\ alive = 0
    /\ connected
    /\ sid # None

-----------------------------------------------------------------------------
(* Properties of a refresh next to the listener *)

\* the step is the publication of a REST refresh that had awaited its fetches
RefreshPublishes == refresh_pc = "fetching" /\ refresh_pc' = "idle" /\ last_refresh'.published

\* C28 as stated: what the snapshot holds when a REST refresh publishes, the
\* changes of the events handled during the refresh included, is still there
\* afterwards: every zone key, and every field of every zone but the status.
CE_C28 ==
    [][RefreshPublishes =>
        \A k \in DOMAIN data :
            /\ k \in DOMAIN data'
            /\ OtherFieldsSame(data[k], data'[k], "status")]_vars

\* a refresh has published, and the zone that a dev_data event had added
\* during the refresh is gone
EventLost ==
    /\ refresh_pc = "idle"
    /\ last_refresh.path = "rest"
    /\ last_refresh.published
    /\ last_update_time = now /\ poll_count > 0
    /\ UniqueKey("D1", 4) \notin DOMAIN data

-----------------------------------------------------------------------------
(* Properties of the connect attempt *)

\* the outcomes in which the handshake is answered with a non-200 status or
\* with a first frame that is no "0" frame
HandshakeRefused == {"http_error", "bad_handshake"}

\* C29: an attempt whose handshake is refused reports failure, leaves the
\* connection flag and the session id as they were and posts neither the
\* namespace join nor the dev_data request; the listener counts the failure
\* and goes to sleep (or to the fallback) with both fields unchanged.
Thm_C29 ==
    /\ [](\A o \in HandshakeRefused, s \in Sids :
            LET c == ConnectSocketIO(o, s, sid, connected)
            IN  /\ ~c.ok
                /\ c.sid = sid
                /\ c.connected = connected
                /\ c.posts = <<>>)
    /\ [][(\E o \in HandshakeRefused, s \in Sids : ConnectFail(o, s) \/ ConnectFailFallback(o, s)) =>
            (/\ sid' = sid
             /\ connected' = connected
             /\ l_pc' \in {"backoff", "fallback"}
             /\ failed_connects' = failed_connects + 1)]_vars

\* the listener sleeps after its first attempt, a refused handshake while the
\* server offered another session id: the bootstrap's session id is still
\* stored
Wit_C29 ==
    /\ l_pc = "backoff"
    /\ last_failure = "handshake"
    /\ failed_connects = 1
    /\ sid = "s1"
    /\ ConnectSocketIO("bad_handshake", "s2", sid, connected).sid = "s1"
    /\ booted

-----------------------------------------------------------------------------
(* Properties of the keepalive *)

\* the step is a cycle of the poll loop that got past the watchdog
CycleRun ==
    /\ l_pc = "polling"
    /\ poll_count' = poll_count + 1
    /\ exit_reason' \notin {"stale", "idle"}

-----------------------------------------------------------------------------
(* The pong specification: a booted coordinator whose listener polls and is *)
(* answered by pings, alone or next to other frames, whose pong posts        *)
(* succeed, time out or raise.                                               *)

MaxPongPolls == 5

\* a ping whose pong post times out
FramePingTimeout == [t |-> "ping", pong |-> "timeout"]

PongResponses ==
    {[kind |-> "timeout", frames |-> <<>>]}
    \cup {[kind |-> "ok", frames |-> fs] :
            fs \in { <<FrameNoop>>, <<FrameUpdate>>, <<FramePing>>, <<FramePing, FramePing>>,
                     <<FrameUpdate, FramePing>>, <<FrameClose, FramePing>>,
                     <<FramePing, FrameClose>>, <<FramePingTimeout, FramePing>>,
                     <<FramePingLost, FramePing>> }}

NextPong ==
    \/ AsyncStart({"none"})
    \/ ConnectOk("ok", "s2", TRUE)
    \/ CooldownElapsed
    \/ \E resp \in PongResponses : Poll(0, resp, now, MaxPongPolls)

SpecPong == InitTimers /\ [][NextPong]_vars

-----------------------------------------------------------------------------
(* The progress specification: a booted coordinator whose listener task,    *)
(* once started, is never cancelled and is scheduled whenever it can take a  *)
(* step; connects, fallback fetches, token fetches and polls may fail.       *)

MaxLivePolls == 2

LiveResponses ==
    {[kind |-> k, frames |-> <<>>] : k \in {"timeout", "http_error", "exc"}}
    \cup {[kind |-> "ok", frames |-> fs] :
            fs \in {<<FramePing>>, <<FrameClose>>, <<FramePing, FrameClose>>}}

\* a step of the listener task
ListenerStep ==
    \/ \E o \in {"http_error", "join_raise"} : ConnectFail(o, "s2")
    \/ ConnectFailFallback("http_error", "s2")
    \/ \E fo \in LifeFetchOutcomes : FallbackFetched(fo)
    \/ \E token_ok \in BOOLEAN : ConnectOk("ok", "s2", token_ok)
    \/ BackoffElapsed
    \/ CooldownElapsed
    \/ \E resp \in LiveResponses : Poll(0, resp, now, MaxLivePolls)

NextLive ==
    \/ AsyncStart({"none"})
    \/ ListenerStep

\* the event loop runs async_start and then the task whenever it is ready
SpecLive == InitTimers /\ [][NextLive]_vars /\ WF_vars(AsyncStart({"none"})) /\ WF_vars(ListenerStep)

-----------------------------------------------------------------------------
(* Properties of the transitions of the listener *)

\* a new listener task is created in this step
TaskCreated == alive' > alive

\* the transitions of the task between its positions: polling is entered from a
\* connect attempt that returned True, a new attempt follows a sleep, polling
\* is left to the cooldown or by cancellation, a cancelled task stays so
ListedTransitions ==
    /\ [][(l_pc # "polling" /\ l_pc' = "polling") => (l_pc = "connect" /\ connected')]_vars
    /\ [][(l_pc # "connect" /\ l_pc' = "connect") =>
            (l_pc \in {"backoff", "errsleep", "cooldown"} \/ TaskCreated)]_vars
    /\ [][(l_pc = "connect" /\ l_pc' \notin {"connect", "polling", "cancelled"}) =>
            l_pc' \in {"backoff", "fallback", "errsleep"}]_vars
    /\ [][(l_pc = "polling" /\ l_pc' # "polling") => l_pc' \in {"cooldown", "cancelled"}]_vars
    /\ [][l_pc = "cancelled" => (l_pc' = "cancelled" \/ TaskCreated)]_vars

\* the task is about to issue a handshake while the connection flag is set
HandshakeWhileConnected == l_pc = "connect" /\ connected

\* C32 as stated: the task makes the listed transitions only, and it issues a
\* handshake only when the coordinator is not connected.
CE_C32 == ListedTransitions /\ [](~HandshakeWhileConnected)

\* after a bootstrap over the push channel the new listener task is at its
\* first connect attempt, with the flag and the session id of the bootstrap
FirstConnectWhileConnected ==
    /\ HandshakeWhileConnected
    /\ booted
    /\ sid # None
    /\ failed_connects = 0
    /\ alive = 1

-----------------------------------------------------------------------------
(* Properties of the idle timer *)

\* the step is a cycle of the poll loop that ends the session as idle
IdleExit == l_pc = "polling" /\ l_pc' = "cooldown" /\ exit_reason' = "idle"

\* the step is a cycle whose response held a frame
FrameReceived == l_pc = "polling" /\ last_frame' # last_frame

\* C33 as stated: every response that holds a frame, a no-op included, counts
\* as activity of the cycle that received it, and the idle timer ends a session
\* only when more than the idle window has passed since the last frame arrived.
CE_C33 ==
    /\ [][FrameReceived => last_activity' = now]_vars
    /\ [][IdleExit => now - last_frame > IdleWindow]_vars

\* the idle timer has ended a session whose last frame arrived less than the
\* idle window ago
IdleDespiteFrames ==
    /\ l_pc = "cooldown"
    /\ exit_reason = "idle"
    /\ now - last_frame < IdleWindow

-----------------------------------------------------------------------------
(* Properties of the end of a session *)

\* the frames of a response up to and including its first close frame
ClosePrefix(frames) ==
    LET closes == {i \in 1..Len(frames) : frames[i].t = "close"}
    IN  IF closes = {} THEN frames
        ELSE SubSeq(frames, 1, CHOOSE i \in closes : \A j \in closes : i <= j)

\* a response that carries a close frame, or an HTTP error status
ClosesSession(resp) ==
    \/ resp.kind = "http_error"
    \/ resp.kind = "ok" /\ \E i \in 1..Len(resp.frames) : resp.frames[i].t = "close"

\* the poll of this cycle is issued: flag set and both watchdogs silent
PollIssued ==
    /\ l_pc = "polling"
    /\ connected
    /\ Watchdog(now, last_update_time, last_activity) = "none"

\* the fields of the coordinator after the frames before the close, and no
\* other, were handled
HandledUpTo(resp) ==
    LET st0 == [data |-> data, last_activity |-> last_activity,
                last_update_time |-> last_update_time,
                ccf |-> consecutive_connection_failures, connected |-> connected,
                closed |-> FALSE, exc |-> FALSE, timedout |-> FALSE, bad |-> FALSE,
                pongs |-> 0]
        st == IF resp.kind = "ok" THEN ProcessFrames(ClosePrefix(resp.frames), 1, now, st0)
              ELSE st0
    IN  /\ data' = st.data
        /\ last_update_time' = st.last_update_time
        /\ last_poll'.pongs = st.pongs

-----------------------------------------------------------------------------
(* Properties of the pongs *)

\* the frames of a response that the frame loop reaches: those up to the first
\* close frame or the first ping whose pong post fails
Reached(frames) ==
    LET ends == {i \in 1..Len(frames) :
                    \/ frames[i].t = "close"
                    \/ frames[i].t = "ping" /\ frames[i].pong # "ok"}
    IN  IF ends = {} THEN frames
        ELSE SubSeq(frames, 1, CHOOSE i \in ends : \A j \in ends : i <= j)

\* the pings among those frames whose pong post succeeds
Answered(frames) ==
    Cardinality({i \in 1..Len(frames) : frames[i].t = "ping" /\ frames[i].pong = "ok"})

\* the step is a cycle whose poll was issued
PollAnswered == PollIssued /\ l_pc' \in {"polling", "cooldown"}

\* C35 as stated: a cycle whose poll was issued posts as many pongs as its
\* response holds ping frames, on the session of the poll.
CE_C35 ==
    [][PollAnswered => (last_poll'.pongs = last_poll'.pings /\ sid' = sid)]_vars

\* C35, amended: a cycle posts one pong, on the session of the poll, for every
\* ping frame that its frame loop reaches and whose post succeeds, and none for
\* any other frame; a ping that follows a close frame or a failed pong post in
\* the same response gets no pong; and the session goes on to the next poll
\* unless a close frame was reached or a pong post raised
Thm_C35 ==
    [][\A resp \in PongResponses :
          (PollIssued /\ Poll(0, resp, now, MaxPongPolls)) =>
              /\ last_poll'.pongs = (IF resp.kind = "ok" THEN Answered(Reached(resp.frames)) ELSE 0)
              /\ last_poll'.pongs <= last_poll'.pings
              /\ sid' = sid
              /\ (l_pc' = "polling") <=>
                     ~(resp.kind = "ok" /\ \E i \in 1..Len(Reached(resp.frames)) :
                          \/ Reached(resp.frames)[i].t = "close"
                          \/ Reached(resp.frames)[i].t = "ping" /\ Reached(resp.frames)[i].pong = "raise")]_vars

\* a response of two pings was answered by two pongs and the session goes on
Wit_C35 ==
    /\ l_pc = "polling"
    /\ connected
    /\ sid = "s2"
    /\ last_poll.pings = 2
    /\ last_poll.pongs = 2

\* a response of two pings left the session polling with no pong posted
PingUnanswered ==
    /\ l_pc = "polling"
    /\ connected
    /\ last_poll.pings = 2
    /\ last_poll.pongs = 0

-----------------------------------------------------------------------------
(* Properties of the publications of a dev_data event *)

\* the handler of a dev_data event has returned
DevDataHandled == h_pc = "idle" /\ last_event.name = "dev_data"

HandledUnpublished == DevDataHandled /\ notify_count = 0

-----------------------------------------------------------------------------
(* Properties of the decoding loop *)

\* message lists the loop may hold when it reaches an index
Decoded == {<<>>, <<<<52>>>>, <<<<52>>, <<>>>>}

\* C37: on every byte sequence the loop of parse_engineio_payload either stops
\* at a binary marker that no 0xFF follows, returning the messages it has, or
\* moves on by at least one byte and never past the end; so it returns a list
\* of at most as many messages as there are bytes, the empty list for empty
\* input, and for a frame followed by an unterminated binary-flagged frame the
\* messages of what comes before
Thm_C37 ==
    /\ c_pc \in {"framed", "decoded"} =>
          \A i \in 1..Len(wire) :
              IF Unterminated(wire, i)
              THEN \A msgs \in Decoded : ParseFrom(wire, i, msgs) = msgs
              ELSE /\ StepIndex(wire, i) > i
                   /\ StepIndex(wire, i) <= Len(wire) + 1
                   /\ \A msgs \in Decoded :
                         /\ Len(StepMessages(wire, i, msgs)) \in {Len(msgs), Len(msgs) + 1}
                         /\ ParseFrom(wire, i, msgs) =
                               ParseFrom(wire, StepIndex(wire, i), StepMessages(wire, i, msgs))
    /\ c_pc = "decoded" =>
          /\ messages = parse_engineio_payload(wire)
          /\ Len(messages) <= Len(wire)
          /\ wire = <<>> => messages = <<>>
          /\ garbage # <<>> =>
                messages = parse_engineio_payload(SubSeq(wire, 1, Len(wire) - Len(garbage)))

\* a text frame followed by a binary marker that no 0xFF follows has been
\* decoded: the message of the text frame is kept, the rest gives none
Wit_C37 ==
    /\ c_pc = "decoded"
    /\ framing = "text"
    /\ frame_payload = <<52, 97>>
    /\ garbage = <<BinaryMarker, 97>>
    /\ wire = <<52, 97, RecordSeparator, BinaryMarker, 97>>
    /\ messages = <<<<52, 97>>>>

-----------------------------------------------------------------------------
(* Properties of the progress of the listener *)

\* the task is in its poll loop with the connection flag set
InPollLoop == l_pc = "polling" /\ connected

\* the task sleeps after a connect attempt that failed, or runs the fallback
\* fetch that follows one
ConnectFailed == l_pc \in {"backoff", "fallback"}

\* the task sleeps after the token fetch that follows a connect raised
TokenFailed == l_pc = "errsleep"

-----------------------------------------------------------------------------
(* Properties of the config flow *)

\* C21 as stated: an entry is created only when authenticate() succeeded; a
\* failed authentication shows the form with cannot_connect (unknown for an
\* unexpected exception) and creates no entry; a submission that matches an
\* existing entry aborts with already_configured.
CE_C21 ==
    /\ flow_result = "create_entry" => flow_auth = "true"
    /\ flow_auth \in {"false", "raised"} =>
            (flow_result = "form" /\ flow_error = "cannot_connect")
    /\ flow_error = "unknown" => (flow_result = "form" /\ flow_auth = "none")
    /\ flow_result = "abort" => flow_error = "already_configured"

\* an entry has been created by a submission whose authenticate() returned
\* False
EntryWithoutAuth ==
    /\ flow_result = "create_entry"
    /\ flow_auth = "false"
    /\ entries # {}


-----------------------------------------------------------------------------
(* Properties of the climate entity *)

\* the entity reports this target temperature and this mode
Reports(d, opt_temp, opt_mode, target, hvac_mode) ==
    /\ target # NoTemp => TargetTemperature(d, opt_temp) = target
    /\ HvacMode(d, opt_mode) = hvac_mode

\* every call in the log was made with the optimistic state of its command
\* already reported
CallsAfterOptimistic ==
    \A n \in 1..Len(api_commands) :
        LET call == api_commands[n]
        IN  /\ call.kind = "set_temperature" =>
                    (call.target = call.temp /\ call.hvac_mode = "heat" /\ call.mode = "modified_auto")
            /\ call.kind = "set_mode" => ApiMode(call.hvac_mode) = call.mode

\* this step adds exactly one call to the log
OneCall == Len(api_commands') = Len(api_commands) + 1

\* C22 as stated: every command reports its optimistic state when the API is
\* called and afterwards, and every command calls the API exactly once.
CE_C22 ==
    [][/\ (\E t \in ClimateTemps \ {NoTemp} : ClimateSetTemperature(t, MaxCommands)) =>
            (/\ optimistic_target_temp' # NoTemp
             /\ Reports(data', optimistic_target_temp', optimistic_hvac_mode',
                        optimistic_target_temp', "heat")
             /\ OneCall)
       /\ (\E m \in ClimateModes : ClimateSetHvacMode(m, MaxCommands)) =>
            (/\ optimistic_hvac_mode' \in ClimateModes
             /\ OneCall)]_vars

\* C22 (amended): a command with a temperature reports that temperature and
\* HEAT, a command with a mode reports that mode, already when its API call is
\* made; afterwards the optimistic fields change only by being cleared or by a
\* later command. A command with a temperature or with one of OFF, HEAT, AUTO
\* calls the API exactly once; a call without a temperature changes nothing
\* and a mode outside OFF, HEAT, AUTO is reported but never sent.
Thm_C22 ==
    /\ []CallsAfterOptimistic
    /\ [][(\E t \in ClimateTemps \ {NoTemp} : ClimateSetTemperature(t, MaxCommands)) =>
            (/\ optimistic_target_temp' # NoTemp
             /\ Reports(data', optimistic_target_temp', optimistic_hvac_mode',
                        optimistic_target_temp', "heat")
             /\ OneCall
             /\ api_commands'[Len(api_commands')].temp = optimistic_target_temp')]_vars
    /\ [][ClimateSetTemperature(NoTemp, MaxCommands) => UNCHANGED entityVars]_vars
    /\ [][(\E m \in HvacModes : ClimateSetHvacMode(m, MaxCommands)) =>
            (/\ optimistic_hvac_mode' \in HvacModes
             /\ OneCall
             /\ api_commands'[Len(api_commands')].mode = ApiMode(optimistic_hvac_mode'))]_vars
    /\ [][ClimateSetHvacMode("fan_only", MaxCommands) =>
            (optimistic_hvac_mode' = "fan_only" /\ UNCHANGED <<api_commands, commands>>)]_vars
    /\ [][(\/ \E i \in 1..MaxCommands, outcome \in {"true", "false", "raised"} :
                    ClimateReturned(i, outcome)
           \/ \E i \in 1..(2 * MaxCommands), o \in ClimateRefreshOutcomes : ClimateTask(i, o)) =>
            (/\ optimistic_target_temp' \in {optimistic_target_temp, NoTemp}
             /\ optimistic_hvac_mode' \in {optimistic_hvac_mode, None}
             /\ UNCHANGED api_commands)]_vars

\* The call of api.set_temperature(23) is awaited, the log shows target 23 and
\* HEAT for it, and the stored status has no set temperature
Wit_C22 ==
    /\ commands = <<"temperature">>
    /\ optimistic_target_temp = 23
    /\ api_commands # <<>>
    /\ api_commands[Len(api_commands)].kind = "set_temperature"
    /\ api_commands[Len(api_commands)].target = 23
    /\ api_commands[Len(api_commands)].hvac_mode = "heat"
    /\ TargetTemperature(data, NoTemp) = NoTemp

\* a mode without a branch is reported and no call was ever made
UnsupportedModeReported ==
    /\ optimistic_hvac_mode = "fan_only"
    /\ api_commands = <<>>
    /\ commands = <<>>

-----------------------------------------------------------------------------
(* Properties of the failed and the overlapping commands of the climate entity *)

\* what the handler of a command of this kind reverts when the command failed
Reverted(kind) ==
    /\ optimistic_hvac_mode' = None
    /\ optimistic_hvac_action' = None
    /\ kind = "temperature" => optimistic_target_temp' = NoTemp

\* C39 as stated: when the API call of a command returns False or raises, the
\* optimistic fields the command set are cleared.
CE_C39 ==
    [][\A i \in 1..MaxCommands, outcome \in {"false", "raised"} :
          ClimateReturned(i, outcome) => Reverted(commands[i])]_vars

\* one temperature command was issued, its API call is over, no task is left
\* to run, and the entity still reports the optimistic values of the command
OptimisticLeftSet ==
    /\ Len(api_commands) = 1
    /\ api_commands[1].kind = "set_temperature"
    /\ commands = <<>>
    /\ entity_tasks = <<>>
    /\ optimistic_target_temp = 23
    /\ optimistic_hvac_mode = "heat"
    /\ optimistic_hvac_action # None

\* two commands of different kinds were issued, the first has returned True
\* and the second still awaits its API call: the optimistic mode and action
\* are those of the second, the tasks are those of the first
SecondInFlight ==
    /\ Len(api_commands) = 2
    /\ api_commands[1].kind # api_commands[2].kind
    /\ commands = <<IF api_commands[2].kind = "set_temperature" THEN "temperature" ELSE "mode">>
    /\ entity_tasks # <<>>

\* C40 as stated: a task of the first command leaves the optimistic values of
\* the second command, which has not completed, as they are.
CE_C40 ==
    [][\A i \in 1..(2 * MaxCommands), o \in ClimateRefreshOutcomes :
          (SecondInFlight /\ ClimateTask(i, o)) =>
              UNCHANGED <<optimistic_target_temp, optimistic_hvac_mode, optimistic_hvac_action>>]_vars

\* the second command still awaits its API call and its optimistic mode and
\* action are gone: the clear of the first command has run
SecondErased ==
    /\ Len(api_commands) = 2
    /\ api_commands[1].kind # api_commands[2].kind
    /\ commands = <<IF api_commands[2].kind = "set_temperature" THEN "temperature" ELSE "mode">>
    /\ optimistic_hvac_mode = None
    /\ optimistic_hvac_action = None

=============================================================================
